---- MODULE Spec2Model ----
(***************************************************************************)
(* Win-rate analytics engine: backend k-means clustering, lookup-table     *)
(* generation, the logistic trainers and the worker message handlers.      *)
(*                                                                         *)
(* One request is modelled per behaviour: Init draws the operation and its *)
(* inputs, the actions follow the code of that operation to its return or  *)
(* its throw.                                                              *)
(*                                                                         *)
(* Arithmetic.  Feature vectors are one-dimensional (dimensions.length =   *)
(* 1); a coordinate is a non-negative integer or NaN.  Every centroid the  *)
(* k-means code computes is a point or the mean of at most MaxLen points,  *)
(* so a centroid is held exactly, as an integer in units of 1/Scale with   *)
(* Scale = lcm(1..MaxLen), or is NaN.  NaN follows IEEE 754: arithmetic on *)
(* it gives NaN and every comparison with it is false.                     *)
(***************************************************************************)
EXTENDS Integers, Sequences, FiniteSets, TLC

\* ------------------------------------------------------------------ bounds
MaxPoints == 3      \* longest enumerated feature matrix
MaxCoord == 2       \* enumerated coordinates are 0..MaxCoord
MaxK == 3           \* largest requested k
MaxNaNPoints == 2   \* longest enumerated feature matrix that holds a NaN
MaxRows == 3        \* most rows of X and of y in a training request
MaxOptIterations == 8   \* largest options.maxIterations of a training request
MaxId == 2          \* request ids are 1..MaxId
MaxRecords == 4     \* most records of a lookup request (two less with two dimensions)
MaxValue == 2       \* the numbers observed in the first dimension are 1..MaxValue
MaxCombinationsArg == 3   \* largest maxCombinations of a lookup request
MaxDimensions == 2  \* most dimensions of a scored model
MaxWeight == 1      \* weights are -MaxWeight..MaxWeight halves
MaxCategory == 2    \* the categories of an EncodingInfo are among 1..MaxCategory
MaxPredictors == 2  \* most predictors of a regression
MaxRequests == 2    \* requests the controller serves in one behaviour
MaxRequestInput == 2  \* distinct dimension lists, and distinct filters, of the requests
MaxCacheKey == 1    \* cache keys of the requests are among 1..MaxCacheKey, 0 when absent
MaxData == 4        \* most records given to splitTrainingTestingData
MaxBatch == 3       \* most elements of a batch prediction
MaxClears == 1      \* most clear-cache requests of one behaviour
MaxReplies == 3     \* most requests answered in one behaviour
MaxInflight == 2    \* most handlers suspended at an await at once
MaxArrivals == 3    \* most messages sent to a worker in one behaviour
MaxRuns == 3        \* most clustering runs started in the view in one behaviour
MaxSelected == 3    \* most dimensions checked in the clustering form

\* part_008:115, the k-means cap
MAX_ITERATIONS == 100

\* part_009:64, MAX_ITERATIONS of buildPredictionModel
BUILD_MAX_ITERATIONS == 500

\* ----------------------------------------------------------------- helpers
Abs(x) == IF x < 0 THEN -x ELSE x

Max2(a, b) == IF a >= b THEN a ELSE b

RECURSIVE GCD(_, _)
GCD(a, b) == IF b = 0 THEN a ELSE GCD(b, a % b)

RECURSIVE LcmUpTo(_)
LcmUpTo(n) == IF n <= 1 THEN 1 ELSE (LcmUpTo(n - 1) * n) \div GCD(LcmUpTo(n - 1), n)

RECURSIVE SumSeq(_)
SumSeq(s) == IF Len(s) = 0 THEN 0 ELSE Head(s) + SumSeq(Tail(s))

RECURSIVE SeqsUpTo(_, _)
SeqsUpTo(S, n) == IF n = 0 THEN {<<>>} ELSE SeqsUpTo(S, n - 1) \cup [1..n -> S]

\* NaN: every other number of the clustering model is >= 0
NaN == 0 - 1

\* a < b of two numbers
Less(a, b) == a # NaN /\ b # NaN /\ a < b

\* The 1-D scenario of the specification: two well-separated groups.
ScenarioPoints == <<0, 0, 1, 10, 10, 11>>

MaxLen == Max2(MaxPoints, Len(ScenarioPoints))

Scale == LcmUpTo(MaxLen)

\* The feature matrices the clustering is run on: every non-empty matrix of at
\* most MaxPoints one-dimensional rows, the scenario, and the matrices of at
\* most MaxNaNPoints rows in which a coordinate is NaN.
FeatureMatrices ==
    (SeqsUpTo(0..MaxCoord, MaxPoints) \ {<<>>})
        \cup {ScenarioPoints}
        \cup {m \in SeqsUpTo({0, NaN}, MaxNaNPoints): \E i \in 1..Len(m): m[i] = NaN}

VARIABLES
    op,            \* the operation this behaviour runs
    pc,            \* position in the operation's code
    outcome,       \* "none" while running, then "result" or "error"
    features,      \* data.X: the points
    via,           \* "direct": the service is called; "controller": through the request handler
    kArg,          \* the k of the call (service) or of req.body (controller)
    k,             \* the service's parameter k
    maxIterations, \* the loop's iteration cap
    centroids,
    newCentroids,
    clusters,      \* clusters[c]: the indices of the points assigned to c, in input order
    converged,
    iterations,
    shiftSmall,    \* per round performed: whether centroidShift < 0.001
    lenX,          \* X.length of a training request, -1 when X is missing
    lenY,          \* y.length of a training request, -1 when y is missing
    iteration,     \* the trainers' loop counter
    costHistory,   \* per cost pushed: the value of the loop counter at the push
    deltaSmall,    \* per iteration performed: whether the compared quantity was < 0.0001
    trainIndices,  \* the examples (row numbers of X) the gradient updates have read
    validIndices,  \* the examples the performance metrics were computed on
    confusionMatrix,  \* the four counts, or NoMatrix before they are counted
    performance,   \* accuracy, precision, recall and f1Score, or NoPerformance
    action,        \* e.data.action
    id,            \* e.data.id
    opThrows,      \* whether the requested operation throws on e.data.data
    outbox,        \* the messages posted by self.postMessage, in order
    opportunities, \* the records of a lookup request: [vals, won]
    numDimensions, \* dimensions.length of a lookup request
    maxCombinations,
    selectedDimensionValues,  \* per dimension, the values the table enumerates
    lookupTable,   \* the cells, in the order they are pushed
    path,          \* the scoring path: "worker" or "service"
    weights,       \* model.weights / model.coefficients in units of 1/2, bias first
    recordValues,  \* per dimension, the value scored: data.features[i] / opportunity[dim]
    encodingInfo,  \* per dimension, the categories of model.encodingInfo[dim] by code
    probability,   \* the probability returned, in units of 1/10000
    category,      \* the category returned
    contributions, \* the contribution entries returned, in their order
    shownNames,    \* per entry, the dimension the prediction view names it by
    predictors,    \* p: the number of predictors of a regression, intercept excluded
    singular,      \* whether X'X of the design matrix has no inverse
    statistics,    \* the standard errors, t, p-values and intervals returned:
                   \* "none", "finite", or "nan" when they are NaN or infinite
    errorMessage,  \* the message of the error thrown, "" when none
    requests,      \* requests[r]: req.body of the r-th request to the controller
    stage,         \* stage[r]: where the handler of request r stands
    cache,         \* the controller's cache: per store, per cacheKey, the stored result
    responses,     \* responses[r]: what res.json was given for request r
    data,          \* splitTrainingTestingData: record[outcomeField] of each record, in order
    testRatio,     \* in hundredths
    stratified,
    training,      \* the returned training set: positions in data
    testing,       \* the returned testing set: positions in data
    method,        \* balanceWinLossData: the balancing method
    balanced,      \* the returned records: [source, outcome], source 0 for an object copied from no record
    featuresList,  \* batch prediction: per element its feature value, MissingFeatures for null
    predictions,   \* the predictions returned: [probability, category]
    summary,       \* the summary returned, NoSummary when none
    stores,        \* cache.models and the two result stores: per key the number of
                   \* clearCache calls made before the entry was stored, NotStored when absent
    clears,        \* the clearCache calls made so far
    inflight,      \* the handlers suspended at their await
    replies,  \* what res.json was given, request by request, in order
    received,      \* the messages delivered to a worker, in arrival order: [action, id, throws]
    dispatched,    \* how many of them the event loop has handed to self.onmessage
    current,       \* the arrival number of the message onmessage is running for, 0 if none
    begun,         \* per handling begun: the responses posted and the messages waiting then
    posted,        \* the responses posted by the worker, in order, with the request answered
    route,         \* the registered route a request matches: [router, verb, path, handler]
    cookies,       \* req.cookies: NoCookies when undefined, else the sf_access_token value
    invoked,       \* the controller functions that have been called for the request
    answer,        \* what res.status(..).json(..) was given, NoAnswer before
    updates,       \* updateOpportunityProbabilities: the opportunityId of each update
    batches,       \* the batches built from the records
    calls,         \* per conn.sobject('Opportunity').update call made: its outcome
    updateResults, \* results.success and results.errors: the record ids pushed
    report,        \* the object returned, NoReport before
    dom,           \* the clustering form: the number of checked dimensions and the method
    runs,          \* per clustering run started: the number of dimensions it selected
    pcaData,       \* the view's pcaData: 0 for null, else the run whose reduction it holds
    toWorker,      \* the messages posted to the clustering worker, not yet answered
    toView,        \* the worker's messages not yet handled by handleWorkerMessage
    clustersOf,    \* clusteringData.clusters: the run and the points they were computed from
    plots          \* per scatter plot created: the clusters and the points it draws

kmVars == <<features, via, kArg, k, centroids, newCentroids, clusters, iterations,
            shiftSmall>>

trainVars == <<lenX, lenY, iteration, costHistory, deltaSmall>>

evalVars == <<trainIndices, validIndices, confusionMatrix, performance>>

workerVars == <<action, id, opThrows, outbox>>

lookupVars == <<opportunities, numDimensions, maxCombinations, selectedDimensionValues,
                lookupTable>>

scoreVars == <<path, weights, recordValues, encodingInfo, probability, category,
               contributions, shownNames>>

regressionVars == <<predictors, singular, statistics, errorMessage>>

controllerVars == <<requests, stage, cache, responses>>

splitVars == <<data, testRatio, stratified, training, testing>>

balanceVars == <<method, balanced>>

batchVars == <<featuresList, predictions, summary>>

storeVars == <<stores, clears, inflight, replies>>

queueVars == <<received, dispatched, current, begun, posted>>

routeVars == <<route, cookies, invoked, answer>>

updateVars == <<updates, batches, calls, updateResults, report>>

viewVars == <<dom, runs, pcaData, toWorker, toView, clustersOf, plots>>

vars == <<op, pc, outcome, maxIterations, converged, kmVars, trainVars, evalVars,
          workerVars, lookupVars, scoreVars, regressionVars, controllerVars, splitVars,
          balanceVars,
          batchVars,
          storeVars,
          queueVars,
          routeVars,
          updateVars,
          viewVars>>

\* The variables of the operations a behaviour does not run keep these values.
KMIdle ==
    /\ features = <<>> /\ via = "direct" /\ kArg = 0 /\ k = 0
    /\ centroids = <<>> /\ newCentroids = <<>> /\ clusters = <<>>
    /\ iterations = 0 /\ shiftSmall = <<>>

NoMatrix == [tp |-> 0 - 1, fp |-> 0 - 1, tn |-> 0 - 1, fn |-> 0 - 1]

NoPerformance ==
    [accuracy |-> [kind |-> "unset", num |-> 0, den |-> 0],
     precision |-> [kind |-> "unset", num |-> 0, den |-> 0],
     recall |-> [kind |-> "unset", num |-> 0, den |-> 0],
     f1Score |-> [kind |-> "unset", num |-> 0, den |-> 0]]

EvalIdle ==
    /\ trainIndices = {} /\ validIndices = {}
    /\ confusionMatrix = NoMatrix /\ performance = NoPerformance

TrainIdle ==
    /\ lenX = 0 /\ lenY = 0 /\ iteration = 0 /\ costHistory = <<>> /\ deltaSmall = <<>>
    /\ EvalIdle

WorkerIdle ==
    /\ action = "none" /\ id = 0 /\ opThrows = FALSE /\ outbox = <<>>

RegressionIdle ==
    /\ predictors = 0 /\ singular = FALSE /\ statistics = "none" /\ errorMessage = ""

ControllerIdle ==
    /\ requests = <<>> /\ stage = <<>> /\ cache = <<>> /\ responses = <<>>

SplitIdle ==
    /\ data = <<>> /\ testRatio = 0 /\ stratified = FALSE
    /\ training = <<>> /\ testing = <<>>

BalanceIdle ==
    /\ method = "none" /\ balanced = <<>>

NoSummary == [count |-> -1, high |-> -1, medium |-> -1, low |-> -1]

BatchIdle ==
    /\ featuresList = <<>> /\ predictions = <<>> /\ summary = NoSummary

StoreIdle ==
    /\ stores = <<>> /\ clears = 0 /\ inflight = {} /\ replies = <<>>

QueueIdle ==
    /\ received = <<>> /\ dispatched = 0 /\ current = 0 /\ begun = <<>> /\ posted = <<>>

NoAnswer == [status |-> 0, error |-> ""]

RouteIdle ==
    /\ route = <<>> /\ cookies = "" /\ invoked = {} /\ answer = NoAnswer

NoResults == [success |-> <<>>, errors |-> <<>>]

NoReport == [totalRecords |-> 0 - 1, successCount |-> 0 - 1, errorCount |-> 0 - 1]

UpdateIdle ==
    /\ updates = <<>> /\ batches = <<>> /\ calls = <<>> /\ updateResults = NoResults
    /\ report = NoReport

\* points given to the worker or drawn: the original points of a selection of
\* `of` dimensions, or the reducedData answered to run `of`
Points(kind, of) == [kind |-> kind, of |-> of]

NoClusters == [run |-> 0, points |-> Points("none", 0)]

NoForm == [dims |-> 0, method |-> "none"]

ViewIdle ==
    /\ dom = NoForm /\ runs = <<>> /\ pcaData = 0 /\ toWorker = <<>> /\ toView = <<>>
    /\ clustersOf = NoClusters /\ plots = <<>>

ScoreIdle ==
    /\ path = "none" /\ weights = <<>> /\ recordValues = <<>> /\ encodingInfo = <<>>
    /\ probability = 0 /\ category = "none" /\ contributions = <<>> /\ shownNames = <<>>
    /\ RegressionIdle
    /\ ControllerIdle /\ SplitIdle
    /\ BalanceIdle
    /\ BatchIdle
    /\ StoreIdle
    /\ QueueIdle
    /\ RouteIdle
    /\ UpdateIdle
    /\ ViewIdle

LookupIdle ==
    /\ opportunities = <<>> /\ numDimensions = 0 /\ maxCombinations = 0
    /\ selectedDimensionValues = <<>> /\ lookupTable = <<>>
    /\ ScoreIdle

\* ------------------------------------------------- performDimensionClustering
\* a coordinate in units of 1/Scale
Scaled(x) == IF x = NaN THEN NaN ELSE x * Scale

\* math.distance(a, b) for one-dimensional vectors, in units of 1/Scale
Distance(a, b) == IF a = NaN \/ b = NaN THEN NaN ELSE Abs(a - b)

\* the sum of numbers
SumNaN(s) == IF \E i \in 1..Len(s): s[i] = NaN THEN NaN ELSE SumSeq(s)

\* The centroids.forEach scan of one point: minDistance starts at Infinity
\* (inf), closestCentroid at index 0 (here 1), and only a strictly smaller
\* distance replaces the current closest centroid.
RECURSIVE ScanCentroids(_, _, _, _, _, _)
ScanCentroids(point, cs, j, inf, minDistance, closestCentroid) ==
    IF j > Len(cs) THEN closestCentroid
    ELSE IF Distance(Scaled(point), cs[j]) # NaN
              /\ (inf \/ Distance(Scaled(point), cs[j]) < minDistance)
         THEN ScanCentroids(point, cs, j + 1, FALSE, Distance(Scaled(point), cs[j]), j)
         ELSE ScanCentroids(point, cs, j + 1, inf, minDistance, closestCentroid)

ClosestCentroidLast(point, cs) ==
    LET first == ScanCentroids(point, cs, 1, TRUE, 0, 1)
        same(j) == Distance(Scaled(point), cs[j]) = Distance(Scaled(point), cs[first])
    IN CHOOSE j \in 1..Len(cs): same(j) /\ \A l \in (j + 1)..Len(cs): ~same(l)

ClosestCentroid(point, cs) == ScanCentroids(point, cs, 1, TRUE, 0, 1)

\* clusters after features.forEach: each point pushed to the cluster of its closest centroid
AssignPoints(pts, cs) ==
    [c \in 1..Len(cs) |->
        SelectSeq([i \in 1..Len(pts) |-> i],
                  LAMBDA i: ClosestCentroid(pts[i], cs) = c)]

\* math.mean of the members' coordinates, in units of 1/Scale
MeanOfAllPoints(pts, cluster) ==
    IF \E i \in 1..Len(cluster): pts[cluster[i]] = NaN THEN NaN
    ELSE (Scale * SumSeq([i \in 1..Len(cluster) |-> pts[cluster[i]]])) \div Len(pts)

MeanOf(pts, cluster) ==
    IF \E i \in 1..Len(cluster): pts[cluster[i]] = NaN THEN NaN
    ELSE (Scale * SumSeq([i \in 1..Len(cluster) |-> pts[cluster[i]]])) \div Len(cluster)

NewCentroidFirstPoint(pts, cluster, cs) ==
    IF Len(cluster) = 0 THEN cs[1] ELSE Scaled(pts[cluster[1]])

\* clusters.map(cluster => ...): an empty cluster takes centroids[0]
NewCentroid(pts, cluster, cs) ==
    IF Len(cluster) = 0 THEN cs[1] ELSE MeanOf(pts, cluster)

NewCentroids(pts, cl, cs) == [c \in 1..Len(cl) |-> NewCentroid(pts, cl[c], cs)]

\* math.sum of the per-centroid distances moved, in units of 1/Scale
CentroidShift(cs, ncs) == SumNaN([c \in 1..Len(cs) |-> Distance(cs[c], ncs[c])])

\* centroidShift < 0.001
ShiftBelowThreshold(cs, ncs) ==
    CentroidShift(cs, ncs) # NaN /\ CentroidShift(cs, ncs) * 1000 < Scale

\* while (!converged && iterations < MAX_ITERATIONS)
LoopContinuesOffByOne(conv, iter, cap) == ~conv /\ iter <= cap

LoopContinues(conv, iter, cap) == ~conv /\ iter < cap

\* the handler's argument to the service: k || 3
ControllerK(reqK) == IF reqK = 0 THEN 3 ELSE reqK

InitCluster ==
    /\ op = "cluster"
    /\ pc = "draw"
    /\ outcome = "none"
    /\ features \in FeatureMatrices
    /\ via \in {"direct", "controller"}
    /\ kArg \in -1..MaxK
    /\ k = IF via = "controller" THEN ControllerK(kArg) ELSE kArg
    /\ maxIterations = MAX_ITERATIONS
    /\ centroids = <<>>
    /\ newCentroids = <<>>
    /\ clusters = <<>>
    /\ converged = FALSE
    /\ iterations = 0
    /\ shiftSmall = <<>>
    /\ TrainIdle
    /\ WorkerIdle
    /\ LookupIdle

\* lines 106-112: k rows drawn at random from the features, repeats allowed
KMDraw ==
    /\ op = "cluster" /\ pc = "draw"
    /\ \E draw \in [1..Max2(k, 0) -> 1..Len(features)]:
          centroids' = [i \in 1..Max2(k, 0) |-> Scaled(features[draw[i]])]
    /\ pc' = IF LoopContinues(converged, iterations, maxIterations) THEN "assign" ELSE "stats"
    /\ UNCHANGED <<controllerVars, splitVars, op, outcome, features, via, kArg, k, maxIterations, newCentroids,
                   clusters, converged, iterations, shiftSmall, trainVars, workerVars, lookupVars, regressionVars, scoreVars,
                   evalVars,
                   balanceVars,
                   batchVars,
                   storeVars,
                   queueVars,
                   routeVars,
                   updateVars,
                   viewVars>>

\* lines 121-151: the assignment step and the new centroids.  Array(k) throws
\* for a negative k, and clusters[0].push throws when there is no cluster.
KMAssign ==
    /\ op = "cluster" /\ pc = "assign"
    /\ IF k < 1
       THEN /\ outcome' = "error"
            /\ pc' = "done"
            /\ UNCHANGED <<clusters, newCentroids>>
       ELSE /\ clusters' = AssignPoints(features, centroids)
            /\ newCentroids' = NewCentroids(features, clusters', centroids)
            /\ pc' = "check"
            /\ UNCHANGED outcome
    /\ UNCHANGED <<controllerVars, splitVars, op, features, via, kArg, k, maxIterations, centroids,
                   converged, iterations, shiftSmall, trainVars, workerVars, lookupVars, regressionVars, scoreVars,
                   evalVars,
                   balanceVars,
                   batchVars,
                   storeVars,
                   queueVars,
                   routeVars,
                   updateVars,
                   viewVars>>

\* lines 153-163: the convergence test, the centroid replacement, the counter
KMCheck ==
    /\ op = "cluster" /\ pc = "check"
    /\ converged' = ShiftBelowThreshold(centroids, newCentroids)
    /\ shiftSmall' = Append(shiftSmall, converged')
    /\ centroids' = newCentroids
    /\ iterations' = iterations + 1
    /\ pc' = IF LoopContinues(converged', iterations', maxIterations) THEN "assign" ELSE "stats"
    /\ UNCHANGED <<controllerVars, splitVars, op, outcome, features, via, kArg, k, maxIterations, newCentroids,
                   clusters, trainVars, workerVars, lookupVars, regressionVars, scoreVars,
                   evalVars,
                   balanceVars,
                   batchVars,
                   storeVars,
                   queueVars,
                   routeVars,
                   updateVars,
                   viewVars>>

\* lines 165-218: the statistics and the return.  math.mean throws on an empty
\* array: an empty cluster (winRates, clusterValues) or a cluster holding every
\* point (otherValues) ends the call in the catch block.
StatsThrow(pts, cl) ==
    \E c \in 1..Len(cl): Len(cl[c]) = 0 \/ Len(cl[c]) = Len(pts)

KMStats ==
    /\ op = "cluster" /\ pc = "stats"
    /\ outcome' = IF StatsThrow(features, clusters) THEN "error" ELSE "result"
    /\ pc' = "done"
    /\ UNCHANGED <<controllerVars, splitVars, op, maxIterations, converged, kmVars, trainVars, workerVars, lookupVars, regressionVars, scoreVars,
                   evalVars,
                   balanceVars,
                   batchVars,
                   storeVars,
                   queueVars,
                   routeVars,
                   updateVars,
                   viewVars>>

\* Sum over the points of the squared distance to the centroid of their cluster
SSE(pts, cl, cs) ==
    SumNaN([c \in 1..Len(cl) |->
        SumNaN([i \in 1..Len(cl[c]) |->
            IF Distance(Scaled(pts[cl[c][i]]), cs[c]) = NaN THEN NaN
            ELSE Distance(Scaled(pts[cl[c][i]]), cs[c])
                    * Distance(Scaled(pts[cl[c][i]]), cs[c])])])

NextCluster == KMDraw \/ KMAssign \/ KMCheck \/ KMStats

SpecCluster == InitCluster /\ [][NextCluster]_vars

\* ------------------------------------------- the workers' self.onmessage
RegressionActions ==
    {"multivariate_regression", "calculate_coefficients", "confidence_intervals",
     "statistical_significance"}

PredictionActions ==
    {"train_model", "predict_win_rate", "batch_prediction", "generate_formula",
     "feature_importance"}

\* the actions a request may name: those of the two switches and one that neither has
RequestActions == RegressionActions \cup PredictionActions \cup {"cluster_kmeans"}

\* the case labels of the worker's switch
HasCase(worker, a) ==
    \/ worker = "regressionWorker" /\ a \in RegressionActions
    \/ worker = "predictionWorker" /\ a \in PredictionActions

\* self.postMessage({success: true, id, result})
SuccessMessage(i) == [success |-> TRUE, id |-> i]

\* self.postMessage({success: false, id, error: error.message})
FailureMessageWithoutId(i) == [success |-> FALSE, id |-> 0]

FailureMessage(i) == [success |-> FALSE, id |-> i]

\* part_000:305, the input check of trainPredictionModel
InvalidTrainingInput(lx, ly) ==
    lx = -1 \/ ly = -1 \/ lx = 0 \/ ly = 0 \/ lx # ly

\* part_000:356, if (iteration > 5)
ConvergenceTestAppliedFromFifth(it) == it >= 4

ConvergenceTestApplied(it) == it > 5

\* ---- the performance metrics (part_000:369-391, part_009:134-168)
\* A JavaScript number of the metrics: the exact quotient num/den, or NaN.
NotANumber == [kind |-> "nan", num |-> 0, den |-> 0]

Number(a, b) == [kind |-> "num", num |-> a, den |-> b]

\* a / b for counts a <= b: 0 / 0 is NaN
Quotient(a, b) == IF b = 0 THEN NotANumber ELSE Number(a, b)

\* x || 0: NaN and 0 are falsy
OrZeroOmitted(x) == x

OrZero(x) == IF x.kind = "nan" \/ x.num = 0 THEN Number(0, 1) ELSE x

\* 2 * (precision * recall) / (precision + recall) of two numbers
F1Quotient(precision, recall) ==
    IF precision.num * recall.den + recall.num * precision.den = 0
    THEN NotANumber
    ELSE Number(2 * precision.num * recall.num,
                precision.num * recall.den + recall.num * precision.den)

\* the confusion matrices of n examples whose labels and predictions are 0 or 1
ConfusionMatrices(n) ==
    {cm \in [tp: 0..n, fp: 0..n, tn: 0..n, fn: 0..n] : cm.tp + cm.fp + cm.tn + cm.fn = n}

\* accuracy, precision, recall and f1Score of a confusion matrix over n examples
Performance(cm, n) ==
    LET precision == OrZero(Quotient(cm.tp, cm.tp + cm.fp))
        recall == OrZero(Quotient(cm.tp, cm.tp + cm.fn))
    IN [accuracy |-> Quotient(cm.tp + cm.tn, n),
        precision |-> precision,
        recall |-> recall,
        f1Score |-> OrZero(F1Quotient(precision, recall))]

InitWorker ==
    /\ op \in {"regressionWorker", "predictionWorker"}
    /\ pc = "dispatch"
    /\ outcome = "none"
    /\ action \in RequestActions
    /\ id \in 1..MaxId
    /\ outbox = <<>>
    /\ IF op = "predictionWorker" /\ action = "train_model"
       THEN /\ lenX \in -1..MaxRows
            /\ lenY \in -1..MaxRows
            /\ maxIterations \in 0..MaxOptIterations
            /\ opThrows = FALSE
       ELSE /\ lenX = 0 /\ lenY = 0
            /\ maxIterations = 0
            /\ opThrows \in BOOLEAN
    /\ converged = FALSE
    /\ iteration = 0 /\ costHistory = <<>> /\ deltaSmall = <<>>
    /\ EvalIdle
    /\ KMIdle
    /\ LookupIdle

\* the switch: a case label calls the operation, the default branch throws
WDispatch ==
    /\ op \in {"regressionWorker", "predictionWorker"} /\ pc = "dispatch"
    /\ pc' = IF ~HasCase(op, action) THEN "catch"
             ELSE IF action = "train_model" THEN "validate" ELSE "run"
    /\ UNCHANGED <<controllerVars, splitVars, op, outcome, maxIterations, converged, kmVars, trainVars, workerVars, lookupVars, regressionVars, scoreVars,
                   evalVars,
                   balanceVars,
                   batchVars,
                   storeVars,
                   queueVars,
                   routeVars,
                   updateVars,
                   viewVars>>

\* an operation other than the training: it returns its result or it throws
WRun ==
    /\ op \in {"regressionWorker", "predictionWorker"} /\ pc = "run"
    /\ pc' = IF opThrows THEN "catch" ELSE "post"
    /\ UNCHANGED <<controllerVars, splitVars, op, outcome, maxIterations, converged, kmVars, trainVars, workerVars, lookupVars, regressionVars, scoreVars,
                   evalVars,
                   balanceVars,
                   batchVars,
                   storeVars,
                   queueVars,
                   routeVars,
                   updateVars,
                   viewVars>>

\* part_000:300-320, trainPredictionModel up to the loop
TrainValidate ==
    /\ op = "predictionWorker" /\ pc = "validate"
    /\ pc' = IF InvalidTrainingInput(lenX, lenY) THEN "catch" ELSE "loop"
    /\ UNCHANGED <<controllerVars, splitVars, op, outcome, maxIterations, converged, kmVars, trainVars, workerVars, lookupVars, regressionVars, scoreVars,
                   evalVars,
                   balanceVars,
                   batchVars,
                   storeVars,
                   queueVars,
                   routeVars,
                   updateVars,
                   viewVars>>

\* part_000:322-367, one pass of while (!converged && iteration < maxIterations):
\* the weight update, the cost pushed, the convergence test, the counter
TrainIterate ==
    /\ op = "predictionWorker" /\ pc = "loop"
    /\ ~converged /\ iteration < maxIterations
    /\ \E small \in BOOLEAN:
          /\ deltaSmall' = Append(deltaSmall, small)
          /\ converged' = (ConvergenceTestApplied(iteration) /\ small)
    /\ costHistory' = Append(costHistory, iteration)
    /\ iteration' = iteration + 1
    /\ trainIndices' = 1..lenX
    /\ UNCHANGED <<controllerVars, splitVars, op, pc, outcome, maxIterations, lenX, lenY, kmVars, workerVars,
                   lookupVars, regressionVars, scoreVars, validIndices, confusionMatrix, performance,
                   balanceVars,
                   batchVars,
                   storeVars,
                   queueVars,
                   routeVars,
                   updateVars,
                   viewVars>>

\* part_000:369-407, the metrics and the return: the predictions are made for
\* every row of XWithBias and compared with every y[i]
TrainReturn ==
    /\ op = "predictionWorker" /\ pc = "loop"
    /\ ~(~converged /\ iteration < maxIterations)
    /\ validIndices' = 1..lenY
    /\ confusionMatrix' \in ConfusionMatrices(lenY)
    /\ performance' = Performance(confusionMatrix', lenY)
    /\ pc' = "post"
    /\ UNCHANGED <<controllerVars, splitVars, op, outcome, maxIterations, converged, kmVars, trainVars, workerVars,
                   lookupVars, regressionVars, scoreVars, trainIndices,
                   balanceVars,
                   batchVars,
                   storeVars,
                   queueVars,
                   routeVars,
                   updateVars,
                   viewVars>>

\* the postMessage that ends the try block
WPostSuccess ==
    /\ op \in {"regressionWorker", "predictionWorker"} /\ pc = "post"
    /\ outbox' = Append(outbox, SuccessMessage(id))
    /\ outcome' = "result"
    /\ pc' = "done"
    /\ UNCHANGED <<controllerVars, splitVars, op, maxIterations, converged, kmVars, trainVars, action, id, opThrows,
                   lookupVars, regressionVars, scoreVars,
                   evalVars,
                   balanceVars,
                   batchVars,
                   storeVars,
                   queueVars,
                   routeVars,
                   updateVars,
                   viewVars>>

\* the postMessage of the catch block
WPostFailure ==
    /\ op \in {"regressionWorker", "predictionWorker"} /\ pc = "catch"
    /\ outbox' = Append(outbox, FailureMessage(id))
    /\ outcome' = "error"
    /\ pc' = "done"
    /\ UNCHANGED <<controllerVars, splitVars, op, maxIterations, converged, kmVars, trainVars, action, id, opThrows,
                   lookupVars, regressionVars, scoreVars,
                   evalVars,
                   balanceVars,
                   batchVars,
                   storeVars,
                   queueVars,
                   routeVars,
                   updateVars,
                   viewVars>>

NextWorker ==
    WDispatch \/ WRun \/ TrainValidate \/ TrainIterate \/ TrainReturn
        \/ WPostSuccess \/ WPostFailure

SpecWorker == InitWorker /\ [][NextWorker]_vars

\* --------------------------------------------------- buildPredictionModel
\* the target vector preprocessData returns with a feature matrix of the given
\* number of rows: one target per record
PreprocessedTargets(rows) == rows

\* part_009:25, Math.floor(X.length * 0.8)
TrainSize(n) == (n * 8) \div 10

\* part_009:215, convergence: iteration < MAX_ITERATIONS
ConvergenceFlag(it, cap) == it < cap

InitBuild ==
    /\ op = "build"
    /\ pc = "split"
    /\ outcome = "none"
    /\ lenX \in 0..MaxRows
    /\ lenY = PreprocessedTargets(lenX)
    /\ maxIterations = BUILD_MAX_ITERATIONS
    /\ converged = FALSE
    /\ iteration = 0 /\ costHistory = <<>> /\ deltaSmall = <<>>
    /\ EvalIdle
    /\ KMIdle
    /\ WorkerIdle
    /\ LookupIdle

\* part_009:24-38: the split, the first trainSize indices of a shuffle for the
\* training and the others for the validation; X_train[0].length throws when
\* the training part is empty
BuildSplit ==
    /\ op = "build" /\ pc = "split"
    /\ \E shuffled \in {t \in SUBSET (1..lenX) : Cardinality(t) = TrainSize(lenX)}:
          /\ trainIndices' = shuffled
          /\ validIndices' = (1..lenX) \ shuffled
    /\ IF TrainSize(lenX) = 0
       THEN outcome' = "error" /\ pc' = "done"
       ELSE outcome' = outcome /\ pc' = "loop"
    /\ UNCHANGED <<controllerVars, splitVars, op, maxIterations, converged, kmVars, trainVars, workerVars, lookupVars, regressionVars, scoreVars,
                   confusionMatrix, performance,
                   balanceVars,
                   batchVars,
                   storeVars,
                   queueVars,
                   routeVars,
                   updateVars,
                   viewVars>>

\* part_009:71-107, one pass of while (iteration < MAX_ITERATIONS): the
\* coefficient update, the cost pushed, then the break when the cost moved by
\* less than CONVERGENCE_THRESHOLD.  prevCost is Infinity in the first pass.
BuildIterate ==
    /\ op = "build" /\ pc = "loop"
    /\ iteration < maxIterations
    /\ costHistory' = Append(costHistory, iteration)
    /\ \E small \in (IF costHistory = <<>> THEN {FALSE} ELSE BOOLEAN):
          /\ deltaSmall' = Append(deltaSmall, small)
          /\ IF small
             THEN pc' = "finish" /\ iteration' = iteration
             ELSE pc' = "loop" /\ iteration' = iteration + 1
    /\ UNCHANGED <<controllerVars, splitVars, op, outcome, maxIterations, converged, lenX, lenY, kmVars, workerVars, lookupVars, regressionVars, scoreVars,
                   evalVars,
                   balanceVars,
                   batchVars,
                   storeVars,
                   queueVars,
                   routeVars,
                   updateVars,
                   viewVars>>

BuildLoopEnd ==
    /\ op = "build" /\ pc = "loop"
    /\ ~(iteration < maxIterations)
    /\ pc' = "finish"
    /\ UNCHANGED <<controllerVars, splitVars, op, outcome, maxIterations, converged, kmVars, trainVars, workerVars, lookupVars, regressionVars, scoreVars,
                   evalVars,
                   balanceVars,
                   batchVars,
                   storeVars,
                   queueVars,
                   routeVars,
                   updateVars,
                   viewVars>>

\* part_009:109-219, validateModel over X_valid and the returned training summary
BuildReturn ==
    /\ op = "build" /\ pc = "finish"
    /\ converged' = ConvergenceFlag(iteration, maxIterations)
    /\ confusionMatrix' \in ConfusionMatrices(Cardinality(validIndices))
    /\ performance' = Performance(confusionMatrix', Cardinality(validIndices))
    /\ outcome' = "result"
    /\ pc' = "done"
    /\ UNCHANGED <<controllerVars, splitVars, op, maxIterations, kmVars, trainVars, workerVars, lookupVars, regressionVars, scoreVars,
                   trainIndices, validIndices,
                   balanceVars,
                   batchVars,
                   storeVars,
                   queueVars,
                   routeVars,
                   updateVars,
                   viewVars>>

NextBuild == BuildSplit \/ BuildIterate \/ BuildLoopEnd \/ BuildReturn

SpecBuild == InitBuild /\ [][NextBuild]_vars

\* the two trainers together
InitTraining == InitWorker \/ InitBuild

NextTraining == NextWorker \/ NextBuild

SpecTraining == InitTraining /\ [][NextTraining]_vars

\* ---------------------------------------------- generateWinRateLookupTable
\* The values a record holds in a dimension: the number n, the string of the
\* decimal digits of n (n >= 0), the string "null" (n = -1), the string
\* "undefined" (n = -2), null, or undefined.
Num(n) == [t |-> "num", n |-> n]

Str(n) == [t |-> "str", n |-> n]

Null == [t |-> "null", n |-> 0]

Undefined == [t |-> "undefined", n |-> 0]

\* part_008:253, valueCounts[value]: the property key of a value, String(value)
KeyOf(v) ==
    IF v.t = "num" THEN Str(v.n)
    ELSE IF v.t = "null" THEN Str(0 - 1)
    ELSE IF v.t = "undefined" THEN Str(0 - 2)
    ELSE v

Nullish(v) == v.t \in {"null", "undefined"}

\* part_008:279, opp[dim] == value: a number and a string compare as numbers,
\* null and undefined equal each other and nothing else
LooseEq(a, b) ==
    IF a.t = b.t THEN a.n = b.n
    ELSE IF Nullish(a) \/ Nullish(b) THEN Nullish(a) /\ Nullish(b)
    ELSE a.n = b.n /\ a.n >= 0

RECURSIVE Distinct(_)
\* part_008:237, [...new Set(values)]: the distinct values, first occurrence first
Distinct(s) ==
    IF Len(s) = 0 THEN <<>>
    ELSE LET front == Distinct(SubSeq(s, 1, Len(s) - 1))
             last == s[Len(s)]
         IN IF \E i \in 1..Len(front): front[i] = last THEN front
            ELSE Append(front, last)

\* opportunities.map(opp => opp[dim])
Column(opps, d) == [i \in 1..Len(opps) |-> opps[i].vals[d]]

RECURSIVE Product(_)
\* part_008:241-242, the reduce over the lengths
Product(domains) ==
    IF Len(domains) = 0 THEN 1
    ELSE Len(Head(domains)) * Product(Tail(domains))

\* part_008:251-254, valueCounts[key] after the forEach
CountOf(opps, d, key) == Cardinality({i \in 1..Len(opps): KeyOf(opps[i].vals[d]) = key})

RECURSIVE SortAscending(_)
SortAscending(S) ==
    IF S = {} THEN <<>>
    ELSE LET m == CHOOSE x \in S: \A y \in S: x <= y
         IN <<m>> \o SortAscending(S \ {m})

\* part_008:257, Object.entries(valueCounts): the keys that are array indices
\* in ascending order, then the other keys in the order they were created
EntryKeys(opps, d) ==
    LET created == Distinct([i \in 1..Len(opps) |-> KeyOf(opps[i].vals[d])])
        indices == {created[i].n : i \in {j \in 1..Len(created): created[j].n >= 0}}
    IN [i \in 1..Cardinality(indices) |-> Str(SortAscending(indices)[i])]
          \o SelectSeq(created, LAMBDA key: key.n < 0)

RECURSIVE InsertEntry(_, _, _, _)
\* the place of an entry in the stable sort by (a, b) => b[1] - a[1]
InsertEntry(sorted, key, opps, d) ==
    IF Len(sorted) = 0 THEN <<key>>
    ELSE IF CountOf(opps, d, sorted[Len(sorted)]) >= CountOf(opps, d, key)
         THEN Append(sorted, key)
         ELSE Append(InsertEntry(SubSeq(sorted, 1, Len(sorted) - 1), key, opps, d),
                     sorted[Len(sorted)])

RECURSIVE SortedValues(_, _, _)
\* part_008:257-259, the keys by descending count
SortedValues(keys, opps, d) ==
    IF Len(keys) = 0 THEN <<>>
    ELSE InsertEntry(SortedValues(SubSeq(keys, 1, Len(keys) - 1), opps, d),
                     keys[Len(keys)], opps, d)

RECURSIVE Power(_, _)
Power(b, e) == IF e = 0 THEN 1 ELSE b * Power(b, e - 1)

\* Math.floor(Math.pow(m, 1/n))
FloorRoot(m, n) == CHOOSE r \in 0..m: Power(r, n) <= m /\ Power(r + 1, n) > m

\* part_008:262-265
ValueLimit(maxComb, n) == Max2(2, FloorRoot(maxComb, n))

\* sortedValues.slice(0, valueLimit)
Slice(s, n) == SubSeq(s, 1, IF n < Len(s) THEN n ELSE Len(s))

\* part_008:235-268, the values the table enumerates in each dimension
SelectedDimensionValues(opps, n, maxComb) ==
    LET dimensionValues == [d \in 1..n |-> Distinct(Column(opps, d))]
    IN IF Product(dimensionValues) > maxComb
       THEN [d \in 1..n |->
                Slice(SortedValues(EntryKeys(opps, d), opps, d), ValueLimit(maxComb, n))]
       ELSE dimensionValues

RECURSIVE FlattenWithoutLast(_)
FlattenWithoutLast(ss) ==
    IF Len(ss) <= 1 THEN <<>> ELSE Head(ss) \o FlattenWithoutLast(Tail(ss))

RECURSIVE Flatten(_)
Flatten(ss) == IF Len(ss) = 0 THEN <<>> ELSE Head(ss) \o Flatten(Tail(ss))

RECURSIVE GenerateCombinations(_, _, _)
\* part_008:274-317, the combinations in the order the recursion reaches them
GenerateCombinations(domains, currentDimIndex, currentCombination) ==
    IF currentDimIndex > Len(domains) THEN <<currentCombination>>
    ELSE Flatten([i \in 1..Len(domains[currentDimIndex]) |->
            GenerateCombinations(domains, currentDimIndex + 1,
                Append(currentCombination, domains[currentDimIndex][i]))])

\* part_008:277-281, the records the combination matches
MatchingOpps(opps, combination) ==
    SelectSeq(opps, LAMBDA opp:
        \A d \in 1..Len(combination): LooseEq(opp.vals[d], combination[d]))

\* part_008:283-304, the cell pushed for a combination.  winRate is the exact
\* quotient num/den; the interval is kept by its presence only.
Cell(opps, combination) ==
    LET matchingOpps == MatchingOpps(opps, combination)
        wins == Len(SelectSeq(matchingOpps, LAMBDA opp: opp.won))
        total == Len(matchingOpps)
    IN [values |-> combination,
        winRate |-> IF total > 0 THEN [num |-> wins * 100, den |-> total]
                    ELSE [num |-> 0, den |-> 1],
        sampleSize |-> total,
        confidenceInterval |-> IF total > 0 THEN "interval" ELSE "null",
        isStatisticallySignificant |-> total >= 10]

FirstValues == {Num(n) : n \in 1..MaxValue} \cup {Null}

SecondValues == {Num(1), Num(2)}

\* the requests over n dimensions: up to MaxRecords records over one dimension,
\* two records less over two
LookupRequests(n) ==
    IF n = 1
    THEN SeqsUpTo([vals: [1..1 -> FirstValues], won: BOOLEAN], MaxRecords)
    ELSE SeqsUpTo([vals: {<<a, b>> : a \in FirstValues, b \in SecondValues},
                   won: BOOLEAN], MaxRecords - 2)

\* the values of a dimension that holds numbers and numeric strings, null
\* and undefined
MixedValues == {Num(1), Str(1), Null, Undefined}

InitLookup ==
    /\ op = "lookup"
    /\ pc = "call"
    /\ outcome = "none"
    /\ numDimensions \in 1..2
    /\ opportunities \in LookupRequests(numDimensions)
    /\ maxCombinations \in (MaxCombinationsArg - 1)..MaxCombinationsArg
    /\ selectedDimensionValues = <<>> /\ lookupTable = <<>>
    /\ ScoreIdle
    /\ maxIterations = 0 /\ converged = FALSE
    /\ KMIdle
    /\ TrainIdle
    /\ WorkerIdle

\* part_008:232-326, generateWinRateLookupTable
GenerateWinRateLookupTable ==
    /\ op = "lookup" /\ pc = "call"
    /\ selectedDimensionValues' =
          SelectedDimensionValues(opportunities, numDimensions, maxCombinations)
    /\ lookupTable' =
          LET combinations == GenerateCombinations(selectedDimensionValues', 1, <<>>)
          IN [c \in 1..Len(combinations) |-> Cell(opportunities, combinations[c])]
    /\ outcome' = "result"
    /\ pc' = "done"
    /\ UNCHANGED <<controllerVars, splitVars, op, maxIterations, converged, kmVars, trainVars, evalVars, workerVars, scoreVars, regressionVars,
                   opportunities, numDimensions, maxCombinations,
                   balanceVars,
                   batchVars,
                   storeVars,
                   queueVars,
                   routeVars,
                   updateVars,
                   viewVars>>

NextLookup == GenerateWinRateLookupTable

SpecLookup == InitLookup /\ [][NextLookup]_vars

\* the requests over one dimension of mixed value types
InitLookupMixed ==
    /\ op = "lookup"
    /\ pc = "call"
    /\ outcome = "none"
    /\ numDimensions = 1
    /\ \E n \in 0..MaxRecords:
          opportunities \in [1..n -> [vals: [1..1 -> MixedValues], won: BOOLEAN]]
    /\ maxCombinations \in (MaxCombinationsArg - 1)..MaxCombinationsArg
    /\ selectedDimensionValues = <<>> /\ lookupTable = <<>>
    /\ ScoreIdle
    /\ maxIterations = 0 /\ converged = FALSE
    /\ KMIdle
    /\ TrainIdle
    /\ WorkerIdle

SpecLookupMixed == InitLookupMixed /\ [][NextLookup]_vars

\* ------------------------------------------------------------- scoring
\* Weights and contributions are in units of 1/2, probabilities in units of
\* 1/10000.  A dimension is its position in model.dimensions; a category is a
\* positive integer.

\* part_000:438, 440: the worker's thresholds
WORKER_HIGH == 7000

WORKER_MEDIUM == 4000

\* part_009:273, 274: the service's thresholds
SERVICE_HIGH == 7500

SERVICE_LOW == 2500

\* config.js:88, 89: CONFIG.PREDICTION.THRESHOLDS
CONFIG_HIGH == 7000

CONFIG_MEDIUM == 3000

\* 1 / (1 + Math.exp(-z)) for z = h/2, rounded down to 1/10000
Sigmoid(h) ==
    LET upper == <<6224, 7310, 8175, 8807, 9241, 9525, 9706, 9820>>
    IN IF h = 0 THEN 5000
       ELSE IF h > 0 THEN (IF h <= Len(upper) THEN upper[h] ELSE 9900)
       ELSE (IF -h <= Len(upper) THEN 10000 - upper[-h] - 1 ELSE 99)

\* a.reduce((sum, value, index) => sum + value * b[index], 0)
DotProduct(a, b) == SumSeq([i \in 1..Len(a) |-> a[i] * b[i]])

\* part_000:437-445
WorkerCategory(p) ==
    IF p >= WORKER_HIGH THEN "high"
    ELSE IF p >= WORKER_MEDIUM THEN "medium"
    ELSE "low"

\* part_009:272-274
ServiceCategory(p) ==
    IF p < SERVICE_LOW THEN "Low"
    ELSE IF p >= SERVICE_HIGH THEN "High"
    ELSE "Medium"

\* the category by the configured thresholds HIGH and MEDIUM
ConfiguredCategory(p) ==
    IF p >= CONFIG_HIGH THEN "high"
    ELSE IF p >= CONFIG_MEDIUM THEN "medium"
    ELSE "low"

RECURSIVE InsertContribution(_, _)
\* the place of an entry in the stable sort by descending |contribution|
InsertContribution(sorted, entry) ==
    IF Len(sorted) = 0 THEN <<entry>>
    ELSE IF Abs(sorted[Len(sorted)].contribution) >= Abs(entry.contribution)
         THEN Append(sorted, entry)
         ELSE Append(InsertContribution(SubSeq(sorted, 1, Len(sorted) - 1), entry),
                     sorted[Len(sorted)])

RECURSIVE SortContributions(_)
\* .sort((a, b) => Math.abs(b.contribution) - Math.abs(a.contribution))
SortContributions(entries) ==
    IF Len(entries) = 0 THEN <<>>
    ELSE InsertContribution(SortContributions(SubSeq(entries, 1, Len(entries) - 1)),
                            entries[Len(entries)])

\* part_000:693-700: one entry per element of featuresWithBias, index 0 the bias
CalculateFeatureContributions(featuresWithBias, w) ==
    SortContributions([i \in 1..Len(featuresWithBias) |->
        [contribution |-> featuresWithBias[i] * w[i],
         weight |-> w[i],
         value |-> featuresWithBias[i],
         index |-> i - 1]])

\* prediction.js:715-723, formatFeatureName(fc.index) with the names of the
\* n dimensions in predictionData.featureNames: the name at that position of
\* the list, or "Feature index+1"; both are the dimension in position index+1
FormatFeatureName(index, n) == index + 1

\* the label code of a category: its position in first-seen order, from 0
CodeOf(categories, value) ==
    (CHOOSE i \in 1..Len(categories): categories[i] = value) - 1

\* part_009:202-205, 248-251: encodingInfo[dim][value] || 0, or the value itself
\* for a dimension without encodingInfo
EncodedValue(info, value) ==
    IF Len(info) = 0 THEN value
    ELSE IF \E i \in 1..Len(info): info[i] = value THEN CodeOf(info, value)
    ELSE 0

\* part_009:243-267: one entry per dimension, sorted by absoluteContribution
ServiceContributions(w, values, info) ==
    SortContributions([d \in 1..Len(values) |->
        [dimension |-> d,
         coefficient |-> w[d + 1],
         value |-> values[d],
         encodedValue |-> EncodedValue(info[d], values[d]),
         contribution |-> w[d + 1] * EncodedValue(info[d], values[d])]])

\* the sequences of distinct categories of at most MaxCategory categories
CategoryLists ==
    {c \in SeqsUpTo(1..MaxCategory, MaxCategory) :
        \A i \in 1..Len(c): \A j \in 1..Len(c): c[i] = c[j] => i = j}

InitScore ==
    /\ op = "score"
    /\ pc = "call"
    /\ outcome = "none"
    /\ path \in {"worker", "service"}
    /\ \E n \in 1..MaxDimensions:
          /\ weights \in [1..(n + 1) -> (0 - MaxWeight)..MaxWeight]
          /\ encodingInfo \in [1..n -> IF path = "service" THEN CategoryLists ELSE {<<>>}]
          /\ recordValues \in [1..n -> 0..(MaxCategory + 1)]
          /\ \A d \in 1..n: Len(encodingInfo[d]) > 0 => recordValues[d] >= 1
    /\ probability = 0 /\ category = "none" /\ contributions = <<>> /\ shownNames = <<>>
    /\ RegressionIdle
    /\ ControllerIdle /\ SplitIdle
    /\ maxIterations = 0 /\ converged = FALSE
    /\ KMIdle
    /\ TrainIdle
    /\ WorkerIdle
    /\ opportunities = <<>> /\ numDimensions = 0 /\ maxCombinations = 0
    /\ selectedDimensionValues = <<>> /\ lookupTable = <<>>
    /\ BalanceIdle
    /\ BatchIdle
    /\ StoreIdle
    /\ QueueIdle
    /\ RouteIdle
    /\ UpdateIdle
    /\ ViewIdle

\* part_000:420-455, predictWinRate of the prediction worker
ScoreWorker ==
    /\ op = "score" /\ path = "worker" /\ pc = "call"
    /\ probability' = Sigmoid(DotProduct(<<1>> \o recordValues, weights))
    /\ contributions' = CalculateFeatureContributions(<<1>> \o recordValues, weights)
    /\ category' = WorkerCategory(probability')
    /\ outcome' = "result"
    /\ pc' = "render"
    /\ UNCHANGED <<controllerVars, splitVars, op, maxIterations, converged, kmVars, trainVars, evalVars, workerVars,
                   lookupVars, regressionVars, path, weights, recordValues, encodingInfo, shownNames,
                   balanceVars,
                   batchVars,
                   storeVars,
                   queueVars,
                   routeVars,
                   updateVars,
                   viewVars>>

\* prediction.js:537-565, handlePredictionResult: the first five entries shown
HandlePredictionResult ==
    /\ op = "score" /\ path = "worker" /\ pc = "render"
    /\ shownNames' = [e \in 1..(IF Len(contributions) < 5 THEN Len(contributions) ELSE 5) |->
                         FormatFeatureName(contributions[e].index, Len(recordValues))]
    /\ pc' = "done"
    /\ UNCHANGED <<controllerVars, splitVars, op, outcome, maxIterations, converged, kmVars, trainVars, evalVars,
                   workerVars, lookupVars, regressionVars, path, weights, recordValues, encodingInfo,
                   probability, category, contributions,
                   balanceVars,
                   batchVars,
                   storeVars,
                   queueVars,
                   routeVars,
                   updateVars,
                   viewVars>>

\* part_009:232-294, predictWinRate of the prediction service, with model.predict
\* (part_009:197-208)
ScoreService ==
    /\ op = "score" /\ path = "service" /\ pc = "call"
    /\ probability' =
          Sigmoid(DotProduct(weights,
              <<1>> \o [d \in 1..Len(recordValues) |->
                           EncodedValue(encodingInfo[d], recordValues[d])]))
    /\ contributions' = ServiceContributions(weights, recordValues, encodingInfo)
    /\ category' = ServiceCategory(probability')
    /\ outcome' = "result"
    /\ pc' = "done"
    /\ UNCHANGED <<controllerVars, splitVars, op, maxIterations, converged, kmVars, trainVars, evalVars, workerVars,
                   lookupVars, regressionVars, path, weights, recordValues, encodingInfo, shownNames,
                   balanceVars,
                   batchVars,
                   storeVars,
                   queueVars,
                   routeVars,
                   updateVars,
                   viewVars>>

NextScore == ScoreWorker \/ HandlePredictionResult \/ ScoreService

SpecScore == InitScore /\ [][NextScore]_vars

\* --------------------------------------------- performMultivariateRegression
\* part_000:63, the input check of the worker's performMultivariateRegression;
\* a length of -1 stands for a missing X or y
InvalidRegressionInputSameLengths(lx, ly) ==
    lx = -1 \/ ly = -1 \/ lx = 0 \/ ly = 0

InvalidRegressionInput(lx, ly) ==
    lx = -1 \/ ly = -1 \/ lx = 0 \/ ly = 0 \/ lx # ly

\* n - p - 1, the degrees of freedom both fits divide by (part_000:105-111,
\* part_008:48-50 with p counting the intercept)
DegreesOfFreedom(n, p) == n - p - 1

InitRegression ==
    /\ op = "regression"
    /\ outcome = "none"
    /\ path \in {"worker", "service"}
    /\ pc = IF path = "worker" THEN "validate" ELSE "fit"
    /\ predictors \in 0..MaxPredictors
    /\ IF path = "worker"
       THEN lenX \in -1..MaxRows /\ lenY \in -1..MaxRows
       ELSE lenX \in 0..MaxRows /\ lenY = PreprocessedTargets(lenX)
    /\ singular \in BOOLEAN
    /\ lenX < predictors + 1 => singular
    /\ statistics = "none" /\ errorMessage = ""
    /\ ControllerIdle /\ SplitIdle
    /\ iteration = 0 /\ costHistory = <<>> /\ deltaSmall = <<>>
    /\ EvalIdle
    /\ maxIterations = 0 /\ converged = FALSE
    /\ KMIdle
    /\ WorkerIdle
    /\ opportunities = <<>> /\ numDimensions = 0 /\ maxCombinations = 0
    /\ selectedDimensionValues = <<>> /\ lookupTable = <<>>
    /\ weights = <<>> /\ recordValues = <<>> /\ encodingInfo = <<>>
    /\ probability = 0 /\ category = "none" /\ contributions = <<>> /\ shownNames = <<>>
    /\ BalanceIdle
    /\ BatchIdle
    /\ StoreIdle
    /\ QueueIdle
    /\ RouteIdle
    /\ UpdateIdle
    /\ ViewIdle

\* part_000:60-66
RegressionValidate ==
    /\ op = "regression" /\ path = "worker" /\ pc = "validate"
    /\ IF InvalidRegressionInput(lenX, lenY)
       THEN /\ outcome' = "error"
            /\ errorMessage' = "Invalid input data for regression analysis"
            /\ pc' = "done"
       ELSE /\ pc' = "fit"
            /\ UNCHANGED <<outcome, errorMessage>>
    /\ UNCHANGED <<controllerVars, splitVars, op, maxIterations, converged, kmVars, trainVars, evalVars, workerVars,
                   lookupVars, scoreVars, predictors, singular, statistics,
                   balanceVars,
                   batchVars,
                   storeVars,
                   queueVars,
                   routeVars,
                   updateVars,
                   viewVars>>

\* part_000:68-147: jStat.inv of a matrix without inverse either throws or
\* hands back non-finite entries; with n - p - 1 <= 0 the standard error is the
\* square root of SSE / (n - p - 1), NaN or infinite, and so is every statistic
\* computed from it
WorkerRegressionFit ==
    /\ op = "regression" /\ path = "worker" /\ pc = "fit"
    /\ \/ /\ singular
          /\ outcome' = "error"
          /\ errorMessage' = "Regression calculation error"
          /\ UNCHANGED statistics
       \/ /\ outcome' = "result"
          /\ statistics' = IF singular \/ DegreesOfFreedom(lenY, predictors) <= 0
                           THEN "nan" ELSE "finite"
          /\ UNCHANGED errorMessage
    /\ pc' = "done"
    /\ UNCHANGED <<controllerVars, splitVars, op, maxIterations, converged, kmVars, trainVars, evalVars, workerVars,
                   lookupVars, scoreVars, predictors, singular,
                   balanceVars,
                   batchVars,
                   storeVars,
                   queueVars,
                   routeVars,
                   updateVars,
                   viewVars>>

\* part_008:17-89: math.inv throws for a matrix without inverse, which every
\* design matrix of fewer than p + 1 rows gives; with n = p + 1 rows sigma2 is
\* RSS / 0 and the statistics are NaN or infinite
ServiceRegressionFit ==
    /\ op = "regression" /\ path = "service" /\ pc = "fit"
    /\ IF singular
       THEN /\ outcome' = "error"
            /\ errorMessage' = "Failed to perform regression analysis"
            /\ UNCHANGED statistics
       ELSE /\ outcome' = "result"
            /\ statistics' = IF DegreesOfFreedom(lenY, predictors) <= 0
                             THEN "nan" ELSE "finite"
            /\ UNCHANGED errorMessage
    /\ pc' = "done"
    /\ UNCHANGED <<controllerVars, splitVars, op, maxIterations, converged, kmVars, trainVars, evalVars, workerVars,
                   lookupVars, scoreVars, predictors, singular,
                   balanceVars,
                   batchVars,
                   storeVars,
                   queueVars,
                   routeVars,
                   updateVars,
                   viewVars>>

NextRegression == RegressionValidate \/ WorkerRegressionFit \/ ServiceRegressionFit

SpecRegression == InitRegression /\ [][NextRegression]_vars

\* the fits and the trainings together
InitFit == InitWorker \/ InitBuild \/ InitRegression

NextFit == NextWorker \/ NextBuild \/ NextRegression

SpecFit == InitFit /\ [][NextFit]_vars

\* ------------------------------------------------- the controller's handlers
\* analyzeDimensionImpact (authController.js:183-274) and generateWinRateLookupTable
\* (authController.js:673-755) over the module-level cache (authController.js:166-176).
\* A request's dimensions and filters are numbered: dimensions 0 is the empty
\* array, cacheKey 0 the absent key.
Endpoints == {"impact", "lookup"}

\* the store of the cache a handler reads and writes
StoreOf(endpoint) == IF endpoint = "impact" THEN "regressionResults" ELSE "lookupTables"

NoEntry == [dimensions |-> 0, filters |-> 0]

NoResponse == [status |-> 0, fromCache |-> FALSE, data |-> NoEntry]

\* what the service computes from the opportunities fetched for a request:
\* fields and whereClause of the query are built from dimensions and filters
ComputedResult(body) == [dimensions |-> body.dimensions, filters |-> body.filters]

RequestBodies ==
    [endpoint: Endpoints, dimensions: 0..MaxRequestInput, filters: 1..MaxRequestInput,
     cacheKey: 0..MaxCacheKey]

\* authController.js:197 and 687, cacheKey && cache.store[cacheKey]
CacheHit(body) ==
    body.cacheKey # 0 /\ cache[StoreOf(body.endpoint)][body.cacheKey] # NoEntry

InitController ==
    /\ op = "controller"
    /\ pc = "serving"
    /\ outcome = "none"
    /\ requests \in [1..MaxRequests -> RequestBodies]
    /\ stage = [r \in 1..MaxRequests |-> "received"]
    /\ cache = [store \in {"regressionResults", "lookupTables"} |->
                    [key \in 1..MaxCacheKey |-> NoEntry]]
    /\ responses = [r \in 1..MaxRequests |-> NoResponse]
    /\ SplitIdle
    /\ RegressionIdle
    /\ iteration = 0 /\ costHistory = <<>> /\ deltaSmall = <<>> /\ lenX = 0 /\ lenY = 0
    /\ EvalIdle
    /\ maxIterations = 0 /\ converged = FALSE
    /\ KMIdle
    /\ WorkerIdle
    /\ opportunities = <<>> /\ numDimensions = 0 /\ maxCombinations = 0
    /\ selectedDimensionValues = <<>> /\ lookupTable = <<>>
    /\ path = "none"
    /\ weights = <<>> /\ recordValues = <<>> /\ encodingInfo = <<>>
    /\ probability = 0 /\ category = "none" /\ contributions = <<>> /\ shownNames = <<>>
    /\ BalanceIdle
    /\ BatchIdle
    /\ StoreIdle
    /\ QueueIdle
    /\ RouteIdle
    /\ UpdateIdle
    /\ ViewIdle

\* the handler up to its await: the 400 for missing dimensions, the answer from
\* the cache, or the query sent
HandlerStart(r) ==
    /\ op = "controller" /\ stage[r] = "received"
    /\ LET body == requests[r] IN
         IF body.dimensions = 0
         THEN /\ responses' = [responses EXCEPT ![r] =
                      [status |-> 400, fromCache |-> FALSE, data |-> NoEntry]]
              /\ stage' = [stage EXCEPT ![r] = "done"]
         ELSE IF CacheHit(body)
         THEN /\ responses' = [responses EXCEPT ![r] =
                      [status |-> 200, fromCache |-> TRUE,
                       data |-> cache[StoreOf(body.endpoint)][body.cacheKey]]]
              /\ stage' = [stage EXCEPT ![r] = "done"]
         ELSE /\ stage' = [stage EXCEPT ![r] = "fetching"]
              /\ UNCHANGED responses
    /\ UNCHANGED <<op, pc, outcome, maxIterations, converged, kmVars, trainVars, evalVars,
                   workerVars, lookupVars, scoreVars, regressionVars, splitVars,
                   requests, cache,
                   balanceVars,
                   batchVars,
                   storeVars,
                   queueVars,
                   routeVars,
                   updateVars,
                   viewVars>>

\* the handler after its await: fetchOpportunities rejected (500), fewer than
\* 50 opportunities for the dimension impact (400), or the result computed,
\* stored under the cacheKey when there is one, and sent
HandlerResume(r) ==
    /\ op = "controller" /\ stage[r] = "fetching"
    /\ LET body == requests[r] IN
       \E fetched \in {"rejected", "few", "enough"}:
         IF fetched = "rejected"
         THEN /\ responses' = [responses EXCEPT ![r] =
                      [status |-> 500, fromCache |-> FALSE, data |-> NoEntry]]
              /\ UNCHANGED cache
         ELSE IF fetched = "few" /\ body.endpoint = "impact"
         THEN /\ responses' = [responses EXCEPT ![r] =
                      [status |-> 400, fromCache |-> FALSE, data |-> NoEntry]]
              /\ UNCHANGED cache
         ELSE /\ cache' = IF body.cacheKey # 0
                          THEN [cache EXCEPT ![StoreOf(body.endpoint)][body.cacheKey] =
                                    ComputedResult(body)]
                          ELSE cache
              /\ responses' = [responses EXCEPT ![r] =
                      [status |-> 200, fromCache |-> FALSE, data |-> ComputedResult(body)]]
    /\ stage' = [stage EXCEPT ![r] = "done"]
    /\ UNCHANGED <<op, pc, outcome, maxIterations, converged, kmVars, trainVars, evalVars,
                   workerVars, lookupVars, scoreVars, regressionVars, splitVars, requests,
                   balanceVars,
                   batchVars,
                   storeVars,
                   queueVars,
                   routeVars,
                   updateVars,
                   viewVars>>

NextController == \E r \in 1..MaxRequests: HandlerStart(r) \/ HandlerResume(r)

SpecController == InitController /\ [][NextController]_vars

\* ---------------------------------------------------- splitTrainingTestingData
\* part_007:244-282.  A record is its position in data; data[i] is the value of
\* its outcome field: "true", "false", or "null" for a field that holds neither
\* boolean (handleMissingValues leaves null where no default is given).
OutcomeValues == {"true", "false", "null"}

\* the ratios of the calls, in hundredths
TestRatios == {0, 20, 50, 100}

\* data.filter(record => record[outcomeField] === value): the positions kept
Filter(value) == {i \in 1..Len(data): data[i] = value}

\* [...records].sort(() => 0.5 - Math.random()): the records in some order
Shuffles(records) ==
    {f \in [1..Cardinality(records) -> records]:
        \A i, j \in 1..Cardinality(records): i # j => f[i] # f[j]}

\* Math.floor(length * testRatio)
TestCount(length) == (length * testRatio) \div 100

\* slice(0, count) and slice(count) for 0 <= count <= length
SliceTo(shuffled, count) == SubSeq(shuffled, 1, count)

SliceFrom(shuffled, count) == SubSeq(shuffled, count + 1, Len(shuffled))

InitSplit ==
    /\ op = "split"
    /\ pc = "call"
    /\ outcome = "none"
    /\ \E n \in 0..MaxData: data \in [1..n -> OutcomeValues]
    /\ testRatio \in TestRatios
    /\ stratified \in BOOLEAN
    /\ training = <<>> /\ testing = <<>>
    /\ ControllerIdle
    /\ RegressionIdle
    /\ iteration = 0 /\ costHistory = <<>> /\ deltaSmall = <<>> /\ lenX = 0 /\ lenY = 0
    /\ EvalIdle
    /\ maxIterations = 0 /\ converged = FALSE
    /\ KMIdle
    /\ WorkerIdle
    /\ opportunities = <<>> /\ numDimensions = 0 /\ maxCombinations = 0
    /\ selectedDimensionValues = <<>> /\ lookupTable = <<>>
    /\ path = "none"
    /\ weights = <<>> /\ recordValues = <<>> /\ encodingInfo = <<>>
    /\ probability = 0 /\ category = "none" /\ contributions = <<>> /\ shownNames = <<>>
    /\ BalanceIdle
    /\ BatchIdle
    /\ StoreIdle
    /\ QueueIdle
    /\ RouteIdle
    /\ UpdateIdle
    /\ ViewIdle

SplitTrainingTestingData ==
    /\ op = "split" /\ pc = "call"
    /\ IF Len(data) = 0
       THEN training' = <<>> /\ testing' = <<>>
       ELSE IF stratified
       THEN \E shuffledWins \in Shuffles(Filter("true")),
               shuffledLosses \in Shuffles(Filter("false")):
              LET winsTestCount == TestCount(Len(shuffledWins))
                  lossesTestCount == TestCount(Len(shuffledLosses))
              IN /\ training' = SliceFrom(shuffledWins, winsTestCount)
                                    \o SliceFrom(shuffledLosses, lossesTestCount)
                 /\ testing' = SliceTo(shuffledWins, winsTestCount)
                                    \o SliceTo(shuffledLosses, lossesTestCount)
       ELSE \E shuffled \in Shuffles(1..Len(data)):
              LET testSize == TestCount(Len(data))
              IN /\ training' = SliceFrom(shuffled, testSize)
                 /\ testing' = SliceTo(shuffled, testSize)
    /\ pc' = "done"
    /\ outcome' = "result"
    /\ UNCHANGED <<op, maxIterations, converged, kmVars, trainVars, evalVars,
                   workerVars, lookupVars, scoreVars, regressionVars, controllerVars,
                   data, testRatio, stratified,
                   balanceVars,
                   batchVars,
                   storeVars,
                   queueVars,
                   routeVars,
                   updateVars,
                   viewVars>>

NextSplit == SplitTrainingTestingData

SpecSplit == InitSplit /\ [][NextSplit]_vars

\* ----------------------------------------------------------- balanceWinLossData
\* part_007:202-234, over the records of data
Methods == {"undersample", "oversample", "other"}

\* data.filter(...) keeps the order of data: the positions kept, ascending
Filtered(value) ==
    LET kept == Filter(value)
    IN [i \in 1..Cardinality(kept) |->
            CHOOSE x \in kept: Cardinality({y \in kept: y < x}) = i - 1]

\* a record of data as it stands in the output
RecordAt(position) == [source |-> position, outcome |-> data[position]]

\* { ...minorityClass[randomIndex] }: the copy of a record, and the empty
\* object when the index reaches no record, whose outcome field is undefined
SpreadOfMissing == [source |-> 0, outcome |-> "undefined"]

SpreadOf(class, randomIndex) ==
    IF randomIndex \in 1..Len(class) THEN RecordAt(class[randomIndex]) ELSE SpreadOfMissing

\* Math.floor(Math.random() * length), counted from 1: any index of the
\* class, and the first index, which holds nothing, when the class is empty
RandomIndices(length) == IF length = 0 THEN {1} ELSE 1..length

Records(positions) == [i \in 1..Len(positions) |-> RecordAt(positions[i])]

InitBalance ==
    /\ op = "balance"
    /\ pc = "call"
    /\ outcome = "none"
    /\ \E n \in 0..MaxData: data \in [1..n -> OutcomeValues]
    /\ method \in Methods
    /\ balanced = <<>>
    /\ testRatio = 0 /\ stratified = FALSE /\ training = <<>> /\ testing = <<>>
    /\ ControllerIdle
    /\ RegressionIdle
    /\ iteration = 0 /\ costHistory = <<>> /\ deltaSmall = <<>> /\ lenX = 0 /\ lenY = 0
    /\ EvalIdle
    /\ maxIterations = 0 /\ converged = FALSE
    /\ KMIdle
    /\ WorkerIdle
    /\ opportunities = <<>> /\ numDimensions = 0 /\ maxCombinations = 0
    /\ selectedDimensionValues = <<>> /\ lookupTable = <<>>
    /\ path = "none"
    /\ weights = <<>> /\ recordValues = <<>> /\ encodingInfo = <<>>
    /\ probability = 0 /\ category = "none" /\ contributions = <<>> /\ shownNames = <<>>
    /\ BatchIdle
    /\ StoreIdle
    /\ QueueIdle
    /\ RouteIdle
    /\ UpdateIdle
    /\ ViewIdle

BalanceWinLossData ==
    /\ op = "balance" /\ pc = "call"
    /\ LET wins == Filtered("true")
           losses == Filtered("false")
           minorityClass == IF Len(wins) <= Len(losses) THEN wins ELSE losses
           majorityClass == IF Len(wins) <= Len(losses) THEN losses ELSE wins
           difference == Len(majorityClass) - Len(minorityClass)
       IN IF method = "undersample"
          THEN \E shuffledMajority \in Shuffles({majorityClass[i] : i \in 1..Len(majorityClass)}):
                  balanced' = Records(minorityClass)
                                \o Records(SliceTo(shuffledMajority, Len(minorityClass)))
          ELSE IF method = "oversample"
          THEN \E picks \in [1..difference -> RandomIndices(Len(minorityClass))]:
                  balanced' = Records(minorityClass)
                                \o [i \in 1..difference |-> SpreadOf(minorityClass, picks[i])]
                                \o Records(majorityClass)
          ELSE balanced' = [i \in 1..Len(data) |-> RecordAt(i)]
    /\ pc' = "done"
    /\ outcome' = "result"
    /\ UNCHANGED <<op, maxIterations, converged, kmVars, trainVars, evalVars,
                   workerVars, lookupVars, scoreVars, regressionVars, controllerVars,
                   splitVars, method,
                   batchVars,
                   storeVars,
                   queueVars,
                   routeVars,
                   updateVars,
                   viewVars>>

NextBalance == BalanceWinLossData

SpecBalance == InitBalance /\ [][NextBalance]_vars

\* ------------------------------------------------------------ batch prediction
\* batchPrediction of the prediction worker (part_000:464-492) and
\* batchPredictWinRates of the prediction service (part_009:302-322), for a
\* model of one numeric dimension.  An element of the list is its feature
\* value, or MissingFeatures for a null element, which predictWinRate throws on
\* (part_000:423-425; part_009:235-237 reads a property of null).
MissingFeatures == 0 - 1

\* predictWinRate for one element of the list
Prediction(p, w, value) ==
    LET pr == Sigmoid(DotProduct(<<1, value>>, w))
    IN [probability |-> pr,
        category |-> IF p = "worker" THEN WorkerCategory(pr) ELSE ServiceCategory(pr)]

\* results.filter(r => r.category === name).length
CategoryCount(results, name) ==
    Cardinality({i \in 1..Len(results): results[i].category = name})

\* the counts of the summary: count and categoryBreakdown of the worker,
\* totalOpportunities and the three ...ProbabilityCount of the service
Summary(p, results) ==
    [count |-> Len(results),
     high |-> CategoryCount(results, IF p = "worker" THEN "high" ELSE "High"),
     medium |-> CategoryCount(results, IF p = "worker" THEN "medium" ELSE "Medium"),
     low |-> CategoryCount(results, IF p = "worker" THEN "low" ELSE "Low")]

InitBatch ==
    /\ op = "batch"
    /\ pc = "call"
    /\ outcome = "none"
    /\ path \in {"worker", "service"}
    /\ weights \in [1..2 -> (0 - MaxWeight)..MaxWeight]
    /\ featuresList \in SeqsUpTo({MissingFeatures} \cup 0..(MaxCategory + 1), MaxBatch)
    /\ predictions = <<>> /\ summary = NoSummary
    /\ recordValues = <<>> /\ encodingInfo = <<>>
    /\ probability = 0 /\ category = "none" /\ contributions = <<>> /\ shownNames = <<>>
    /\ RegressionIdle
    /\ ControllerIdle /\ SplitIdle /\ BalanceIdle
    /\ maxIterations = 0 /\ converged = FALSE
    /\ KMIdle
    /\ TrainIdle
    /\ WorkerIdle
    /\ opportunities = <<>> /\ numDimensions = 0 /\ maxCombinations = 0
    /\ selectedDimensionValues = <<>> /\ lookupTable = <<>>
    /\ StoreIdle
    /\ QueueIdle
    /\ RouteIdle
    /\ UpdateIdle
    /\ ViewIdle

\* part_000:464-492: featuresList.map throws at the first null element and the
\* catch rethrows; otherwise the results and their summary are returned, for
\* the empty list too (its averageProbability is 0 / 0)
BatchPrediction ==
    /\ op = "batch" /\ path = "worker" /\ pc = "call"
    /\ IF \E i \in 1..Len(featuresList): featuresList[i] = MissingFeatures
       THEN /\ outcome' = "error"
            /\ errorMessage' = "Batch prediction error"
            /\ UNCHANGED <<predictions, summary>>
       ELSE /\ predictions' = [i \in 1..Len(featuresList) |->
                                  Prediction(path, weights, featuresList[i])]
            /\ summary' = Summary(path, predictions')
            /\ outcome' = "result"
            /\ UNCHANGED errorMessage
    /\ pc' = "done"
    /\ UNCHANGED <<op, maxIterations, converged, kmVars, trainVars, evalVars,
                   workerVars, lookupVars, scoreVars, controllerVars,
                   splitVars, balanceVars, predictors, singular, statistics, featuresList,
                   storeVars,
                   queueVars,
                   routeVars,
                   updateVars,
                   viewVars>>

\* part_009:302-322: opportunities.map throws at the first null element;
\* math.mean throws for the empty list of probabilities; the catch rethrows
BatchPredictWinRates ==
    /\ op = "batch" /\ path = "service" /\ pc = "call"
    /\ IF \/ \E i \in 1..Len(featuresList): featuresList[i] = MissingFeatures
          \/ Len(featuresList) = 0
       THEN /\ outcome' = "error"
            /\ errorMessage' = "Failed to batch predict win rates"
            /\ UNCHANGED <<predictions, summary>>
       ELSE /\ predictions' = [i \in 1..Len(featuresList) |->
                                  Prediction(path, weights, featuresList[i])]
            /\ summary' = Summary(path, predictions')
            /\ outcome' = "result"
            /\ UNCHANGED errorMessage
    /\ pc' = "done"
    /\ UNCHANGED <<op, maxIterations, converged, kmVars, trainVars, evalVars,
                   workerVars, lookupVars, scoreVars, controllerVars,
                   splitVars, balanceVars, predictors, singular, statistics, featuresList,
                   storeVars,
                   queueVars,
                   routeVars,
                   updateVars,
                   viewVars>>

NextBatch == BatchPrediction \/ BatchPredictWinRates

SpecBatch == InitBatch /\ [][NextBatch]_vars

\* ------------------------------------------------- the handlers over the models
\* buildPredictionModel, predictWinRate, batchPredictWinRates,
\* generateWinRateFormula, simulateWinRateFormula and clearAnalyticsCache of the
\* controller (authController.js:350-670, 762-778) over cache.models, with the
\* cached results of the two analysis handlers.  Every request carries the
\* other parameters its handler requires (dimensions, opportunity, values).
\* The modelIds of the requests: the empty string, an ordinary name, and a
\* name every object inherits a property for.
ModelIds == {"", "m1", "constructor"}

ResultStores == {"regressionResults", "lookupTables"}

NotStored == 0 - 1

\* what the captured value stands for when it is no stored entry
InheritedProperty == 0 - 2

\* cache.models is an object literal: reading a key it does not own reaches
\* Object.prototype
Inherited(modelId) == modelId = "constructor"

\* cache.models[modelId]: the generation of the stored model, the inherited
\* property, or NotStored for undefined
ModelAt(modelId) ==
    IF stores.models[modelId] # NotStored THEN stores.models[modelId]
    ELSE IF Inherited(modelId) THEN InheritedProperty
    ELSE NotStored

\* a build stored a model under the modelId and clearCache has not run since
BuiltSinceClear(modelId) == modelId \in ModelIds /\ stores.models[modelId] # NotStored

\* !modelId || !cache.models[modelId], negated
ModelFound(modelId) == modelId # "" /\ ModelAt(modelId) # NotStored

EmptyStores ==
    [models |-> [m \in ModelIds |-> NotStored],
     results |-> [r \in ResultStores |-> NotStored]]

Reply(kind, key, status, error, served) ==
    [kind |-> kind, key |-> key, status |-> status, error |-> error,
     served |-> served, clears |-> clears, built |-> BuiltSinceClear(key)]

Suspended(kind, key, captured) == [kind |-> kind, key |-> key, captured |-> captured]

InitStore ==
    /\ op = "models"
    /\ pc = "serving"
    /\ outcome = "none"
    /\ stores = EmptyStores
    /\ clears = 0
    /\ inflight = {}
    /\ replies = <<>>
    /\ featuresList = <<>> /\ predictions = <<>> /\ summary = NoSummary
    /\ method = "none" /\ balanced = <<>>
    /\ SplitIdle
    /\ ControllerIdle
    /\ RegressionIdle
    /\ iteration = 0 /\ costHistory = <<>> /\ deltaSmall = <<>> /\ lenX = 0 /\ lenY = 0
    /\ EvalIdle
    /\ maxIterations = 0 /\ converged = FALSE
    /\ KMIdle
    /\ WorkerIdle
    /\ opportunities = <<>> /\ numDimensions = 0 /\ maxCombinations = 0
    /\ selectedDimensionValues = <<>> /\ lookupTable = <<>>
    /\ path = "none"
    /\ weights = <<>> /\ recordValues = <<>> /\ encodingInfo = <<>>
    /\ probability = 0 /\ category = "none" /\ contributions = <<>> /\ shownNames = <<>>
    /\ QueueIdle
    /\ RouteIdle
    /\ UpdateIdle
    /\ ViewIdle

\* the variables no handler of the component writes
StoreFrame ==
    UNCHANGED <<op, pc, outcome, maxIterations, converged, kmVars, trainVars, evalVars,
                workerVars, lookupVars, scoreVars, regressionVars, controllerVars,
                splitVars, balanceVars, batchVars,
                   queueVars,
                   routeVars,
                   updateVars,
                   viewVars>>

CanAnswer == Len(replies) < MaxReplies

CanSuspend == Len(replies) + Cardinality(inflight) < MaxReplies
                 /\ Cardinality(inflight) < MaxInflight

\* authController.js:350-405: buildPredictionModel up to its await
BuildStart(modelId) ==
    /\ op = "models"
    /\ IF modelId = ""
       THEN /\ CanAnswer
            /\ replies' = Append(replies,
                  Reply("build", modelId, 400, "Invalid parameters", NotStored))
            /\ UNCHANGED inflight
       ELSE /\ CanSuspend
            /\ inflight' = inflight \cup {Suspended("build", modelId, NotStored)}
            /\ UNCHANGED replies
    /\ UNCHANGED <<stores, clears>>
    /\ StoreFrame

\* authController.js:400-441: after the await the query was rejected or the
\* service threw (500), fewer than 100 opportunities came (400), or the model
\* is stored and the build answered
BuildFinish(modelId) ==
    /\ op = "models"
    /\ Suspended("build", modelId, NotStored) \in inflight
    /\ inflight' = inflight \ {Suspended("build", modelId, NotStored)}
    /\ \E fetched \in {"rejected", "few", "enough"}:
         IF fetched = "rejected"
         THEN /\ replies' = Append(replies,
                    Reply("build", modelId, 500, "Server error", NotStored))
              /\ UNCHANGED stores
         ELSE IF fetched = "few"
         THEN /\ replies' = Append(replies,
                    Reply("build", modelId, 400, "Insufficient data", NotStored))
              /\ UNCHANGED stores
         ELSE /\ stores' = [stores EXCEPT !.models[modelId] = clears]
              /\ replies' = Append(replies, Reply("build", modelId, 200, "", NotStored))
    /\ UNCHANGED clears
    /\ StoreFrame

\* predictWinRate (authController.js:451-490), generateWinRateFormula
\* (586-616) and simulateWinRateFormula (624-665): 400 without a model, the
\* service's result for a stored model; the services read model.dimensions and
\* throw for a value that has none
UseModel(kind, modelId) ==
    /\ op = "models"
    /\ kind \in {"predict", "formula", "simulate"}
    /\ CanAnswer
    /\ replies' = Append(replies,
          IF ~ModelFound(modelId)
          THEN Reply(kind, modelId, 400, "Model not found", NotStored)
          ELSE IF ModelAt(modelId) = InheritedProperty
          THEN Reply(kind, modelId, 500, "Server error", NotStored)
          ELSE Reply(kind, modelId, 200, "", ModelAt(modelId)))
    /\ UNCHANGED <<stores, clears, inflight>>
    /\ StoreFrame

\* batchPredictWinRates (authController.js:497-575): the model is read before
\* the await; with opportunities in the body there is no await
BatchStart(modelId, shouldFetch, provided) ==
    /\ op = "models"
    /\ IF ~ModelFound(modelId)
       THEN /\ CanAnswer
            /\ replies' = Append(replies,
                  Reply("batch", modelId, 400, "Model not found", NotStored))
            /\ UNCHANGED inflight
       ELSE IF ModelAt(modelId) = InheritedProperty
       THEN /\ CanAnswer
            /\ IF ~shouldFetch /\ ~provided
               THEN replies' = Append(replies,
                       Reply("batch", modelId, 400, "No opportunities", NotStored))
               ELSE replies' = Append(replies,
                       Reply("batch", modelId, 500, "Server error", NotStored))
            /\ UNCHANGED inflight
       ELSE IF shouldFetch
       THEN /\ CanSuspend
            /\ inflight' = inflight \cup {Suspended("batch", modelId, ModelAt(modelId))}
            /\ UNCHANGED replies
       ELSE /\ CanAnswer
            /\ IF provided
               THEN replies' = Append(replies,
                       Reply("batch", modelId, 200, "", ModelAt(modelId)))
               ELSE replies' = Append(replies,
                       Reply("batch", modelId, 400, "No opportunities", NotStored))
            /\ UNCHANGED inflight
    /\ UNCHANGED <<stores, clears>>
    /\ StoreFrame

\* authController.js:544-575: after the await, the predictions of the model
\* read before it
BatchFinish(modelId, captured) ==
    /\ op = "models"
    /\ Suspended("batch", modelId, captured) \in inflight
    /\ inflight' = inflight \ {Suspended("batch", modelId, captured)}
    /\ \E fetched \in {"rejected", "none", "some"}:
         replies' = Append(replies,
            IF fetched = "rejected" THEN Reply("batch", modelId, 500, "Server error", NotStored)
            ELSE IF fetched = "none"
            THEN Reply("batch", modelId, 400, "No opportunities", NotStored)
            ELSE Reply("batch", modelId, 200, "", captured))
    /\ UNCHANGED <<stores, clears>>
    /\ StoreFrame

\* analyzeDimensionImpact and generateWinRateLookupTable for a request with a
\* cacheKey: the stored result, or the query sent
ResultStart(store) ==
    /\ op = "models"
    /\ store \in ResultStores
    /\ IF stores.results[store] # NotStored
       THEN /\ CanAnswer
            /\ replies' = Append(replies, Reply(store, "k", 200, "", stores.results[store]))
            /\ UNCHANGED inflight
       ELSE /\ CanSuspend
            /\ inflight' = inflight \cup {Suspended(store, "k", NotStored)}
            /\ UNCHANGED replies
    /\ UNCHANGED <<stores, clears>>
    /\ StoreFrame

\* the result computed after the await, stored and sent
ResultFinish(store) ==
    /\ op = "models"
    /\ Suspended(store, "k", NotStored) \in inflight
    /\ inflight' = inflight \ {Suspended(store, "k", NotStored)}
    /\ stores' = [stores EXCEPT !.results[store] = clears]
    /\ replies' = Append(replies, Reply(store, "k", 200, "", clears))
    /\ UNCHANGED clears
    /\ StoreFrame

\* clearAnalyticsCache (authController.js:762-778) with cache.clearCache
\* (authController.js:171-175)
ClearAnalyticsCache ==
    /\ op = "models"
    /\ CanAnswer
    /\ clears < MaxClears
    /\ stores' = EmptyStores
    /\ clears' = clears + 1
    /\ replies' = Append(replies, Reply("clear", "", 200, "", NotStored))
    /\ UNCHANGED inflight
    /\ StoreFrame

NextStore ==
    \/ \E modelId \in ModelIds: BuildStart(modelId) \/ BuildFinish(modelId)
    \/ \E kind \in {"predict", "formula", "simulate"}, modelId \in ModelIds:
          UseModel(kind, modelId)
    \/ \E modelId \in ModelIds, shouldFetch \in BOOLEAN, provided \in BOOLEAN:
          BatchStart(modelId, shouldFetch, provided)
    \/ \E modelId \in ModelIds, captured \in 0..MaxClears: BatchFinish(modelId, captured)
    \/ \E store \in ResultStores: ResultStart(store) \/ ResultFinish(store)
    \/ ClearAnalyticsCache

SpecStore == InitStore /\ [][NextStore]_vars

\* ------------------------------------- the workers' message queue
\* the worker a behaviour of the queue runs in
WorkerOf(o) ==
    IF o = "regressionQueue" THEN "regressionWorker" ELSE "predictionWorker"

\* the actions the queued requests name: one of each worker's switch, so that
\* each worker also receives an action its switch has no case for
QueueActions == {"calculate_coefficients", "predict_win_rate"}

\* the messages a worker may be sent: e.data, and whether the operation throws on it
QueueMessages ==
    [action: QueueActions, id: 1..MaxId, throws: BOOLEAN]

\* the event loop hands self.onmessage the oldest message not yet handled
NextMessageNewest(arrived, handled) == Len(arrived)

NextMessage(arrived, handled) == handled + 1

\* the one message self.onmessage posts for e.data: the try block's or the catch's
ResponseTo(worker, m) ==
    IF HasCase(worker, m.action) /\ ~m.throws
    THEN SuccessMessage(m.id)
    ELSE FailureMessage(m.id)

InitQueue ==
    /\ op \in {"regressionQueue", "predictionQueue"}
    /\ pc = "listening"
    /\ outcome = "none"
    /\ received = <<>>
    /\ dispatched = 0
    /\ current = 0
    /\ begun = <<>>
    /\ posted = <<>>
    /\ StoreIdle
    /\ BatchIdle
    /\ BalanceIdle
    /\ SplitIdle
    /\ ControllerIdle
    /\ RegressionIdle
    /\ path = "none" /\ weights = <<>> /\ recordValues = <<>> /\ encodingInfo = <<>>
    /\ probability = 0 /\ category = "none" /\ contributions = <<>> /\ shownNames = <<>>
    /\ opportunities = <<>> /\ numDimensions = 0 /\ maxCombinations = 0
    /\ selectedDimensionValues = <<>> /\ lookupTable = <<>>
    /\ WorkerIdle
    /\ EvalIdle
    /\ TrainIdle
    /\ KMIdle
    /\ maxIterations = 0 /\ converged = FALSE
    /\ RouteIdle
    /\ UpdateIdle
    /\ ViewIdle

QueueFrame ==
    UNCHANGED <<op, pc, outcome, maxIterations, converged, kmVars, trainVars, evalVars,
                workerVars, lookupVars, scoreVars, regressionVars, controllerVars,
                splitVars, balanceVars, batchVars, storeVars,
                   routeVars,
                   updateVars,
                   viewVars>>

\* worker.postMessage(m) of a page: m joins the worker's queue, whatever the worker does
QueueArrive(m) ==
    /\ op \in {"regressionQueue", "predictionQueue"}
    /\ Len(received) < MaxArrivals
    /\ received' = Append(received, m)
    /\ UNCHANGED <<dispatched, current, begun, posted>>
    /\ QueueFrame

\* part_000:10 / part_000:245, self.onmessage is entered: only when no handler runs,
\* the handler being synchronous
QueueDispatch ==
    /\ op \in {"regressionQueue", "predictionQueue"}
    /\ current = 0
    /\ dispatched < Len(received)
    /\ current' = NextMessage(received, dispatched)
    /\ dispatched' = dispatched + 1
    /\ begun' = Append(begun, [request |-> NextMessage(received, dispatched),
                               postedBefore |-> Len(posted),
                               waiting |-> Len(received) - dispatched - 1])
    /\ UNCHANGED <<received, posted>>
    /\ QueueFrame

\* part_000:39-49 / part_000:278-288, the handler posts its message and returns
QueuePost ==
    /\ op \in {"regressionQueue", "predictionQueue"}
    /\ current # 0
    /\ posted' = Append(posted, [message |-> ResponseTo(WorkerOf(op), received[current]),
                                 request |-> current])
    /\ current' = 0
    /\ UNCHANGED <<received, dispatched, begun>>
    /\ QueueFrame

NextQueue ==
    \/ \E m \in QueueMessages: QueueArrive(m)
    \/ QueueDispatch
    \/ QueuePost

SpecQueue == InitQueue /\ [][NextQueue]_vars

\* ------------------------------------------- the routers and their checkAuth
\* part_006:22-39, the routes of the analytics router
AnalyticsRoutes ==
    {[router |-> "analytics", verb |-> "POST", path |-> p[1], handler |-> p[2]] : p \in
        {<<"/dimension-impact", "analyzeDimensionImpact">>,
         <<"/dimension-clustering", "performDimensionClustering">>,
         <<"/build-prediction-model", "buildPredictionModel">>,
         <<"/predict-win-rate", "predictWinRate">>,
         <<"/batch-predict", "batchPredictWinRates">>,
         <<"/generate-formula", "generateWinRateFormula">>,
         <<"/simulate-formula", "simulateWinRateFormula">>,
         <<"/generate-lookup-table", "generateWinRateLookupTable">>,
         <<"/clear-cache", "clearAnalyticsCache">>}}

\* config.js:63-72, the routes of the data router
DataRoutes ==
    {[router |-> "data", verb |-> "GET", path |-> p[1], handler |-> p[2]] : p \in
        {<<"/opportunities", "fetchOpportunities">>,
         <<"/opportunity-fields", "fetchOpportunityFields">>,
         <<"/opportunity-history", "fetchOpportunityHistory">>,
         <<"/users", "fetchUsers">>}}
    \cup {[router |-> "data", verb |-> "POST", path |-> "/update-probabilities",
           handler |-> "updateOpportunityProbabilities"]}

\* req.cookies: undefined without a cookie parser, else an object whose
\* sf_access_token is undefined, the empty string or a token
NoCookies == "req.cookies undefined"

NoToken == "sf_access_token undefined"

EmptyToken == "sf_access_token ''"

CookieStates == {NoCookies, NoToken, EmptyToken, "token a", "token b"}

\* the request carries no sf_access_token cookie
LacksToken(c) == c \in {NoCookies, NoToken}

\* part_006:12, !req.cookies || !req.cookies.sf_access_token
AnalyticsUnauthenticatedNoParser(c) == c = NoCookies

AnalyticsUnauthenticated(c) == c = NoCookies \/ c \in {NoToken, EmptyToken}

\* config.js:52, !req.cookies || !req.cookies.sf_access_token
DataUnauthenticated(c) == c = NoCookies \/ c \in {NoToken, EmptyToken}

\* part_006:13-17 / config.js:53-57
AuthenticationRequired == [status |-> 401, error |-> "Authentication required"]

\* what a controller function may answer once it runs
HandlerAnswers ==
    {[status |-> 200, error |-> ""],
     [status |-> 400, error |-> "Bad request"],
     [status |-> 401, error |-> "Not authenticated"],
     [status |-> 500, error |-> "Server error"]}

InitRoute ==
    /\ op = "route"
    /\ pc = "checkAuth"
    /\ outcome = "none"
    /\ route \in AnalyticsRoutes \cup DataRoutes
    /\ cookies \in CookieStates
    /\ invoked = {}
    /\ answer = NoAnswer
    /\ QueueIdle
    /\ StoreIdle
    /\ BatchIdle
    /\ BalanceIdle
    /\ SplitIdle
    /\ ControllerIdle
    /\ RegressionIdle
    /\ path = "none" /\ weights = <<>> /\ recordValues = <<>> /\ encodingInfo = <<>>
    /\ probability = 0 /\ category = "none" /\ contributions = <<>> /\ shownNames = <<>>
    /\ opportunities = <<>> /\ numDimensions = 0 /\ maxCombinations = 0
    /\ selectedDimensionValues = <<>> /\ lookupTable = <<>>
    /\ WorkerIdle
    /\ EvalIdle
    /\ TrainIdle
    /\ KMIdle
    /\ maxIterations = 0 /\ converged = FALSE
    /\ UpdateIdle
    /\ ViewIdle

RouteFrame ==
    UNCHANGED <<op, maxIterations, converged, kmVars, trainVars, evalVars,
                workerVars, lookupVars, scoreVars, regressionVars, controllerVars,
                splitVars, balanceVars, batchVars, storeVars, queueVars,
                   updateVars,
                   viewVars>>

\* part_006:11-19, checkAuth of the analytics router
AnalyticsCheckAuth ==
    /\ op = "route" /\ pc = "checkAuth" /\ route.router = "analytics"
    /\ IF AnalyticsUnauthenticated(cookies)
       THEN /\ answer' = AuthenticationRequired
            /\ pc' = "done"
            /\ outcome' = "error"
       ELSE /\ pc' = "handler"
            /\ UNCHANGED <<answer, outcome>>
    /\ UNCHANGED <<route, cookies, invoked>>
    /\ RouteFrame

\* config.js:51-59, checkAuth of the data router
DataCheckAuth ==
    /\ op = "route" /\ pc = "checkAuth" /\ route.router = "data"
    /\ IF DataUnauthenticated(cookies)
       THEN /\ answer' = AuthenticationRequired
            /\ pc' = "done"
            /\ outcome' = "error"
       ELSE /\ pc' = "handler"
            /\ UNCHANGED <<answer, outcome>>
    /\ UNCHANGED <<route, cookies, invoked>>
    /\ RouteFrame

\* next(): the route's controller function runs and answers
RouteHandler(a) ==
    /\ op = "route" /\ pc = "handler"
    /\ invoked' = invoked \cup {route.handler}
    /\ answer' = a
    /\ pc' = "done"
    /\ outcome' = IF a.status = 200 THEN "result" ELSE "error"
    /\ UNCHANGED <<route, cookies>>
    /\ RouteFrame

NextRoute ==
    \/ AnalyticsCheckAuth
    \/ DataCheckAuth
    \/ \E a \in HandlerAnswers: RouteHandler(a)

SpecRoute == InitRoute /\ [][NextRoute]_vars

\* ---------------------------------------- updateOpportunityProbabilities
\* validationUtils.js:608, const batchSize = 200
batchSize == 200

\* the lengths of updates tried: none, one batch, the batch boundary, three batches
UpdateLengths ==
    {0, 1, batchSize - 1, batchSize, batchSize + 1, 2 * batchSize, 2 * batchSize + 1}

\* what one update call may do: throw, or resolve to one result per record of the
\* batch, here with every record, no record or every other record updated; update
\* is given an array and so resolves to an array, Array.isArray(updateResult) holds
CallOutcomes == {"throws", "all", "none", "alternate"}

\* the result array of a call that resolves: success per record of the batch
UpdateResult(kind, batch) ==
    [i \in 1..Len(batch) |-> kind = "all" \/ (kind = "alternate" /\ i % 2 = 1)]

\* validationUtils.js:612, the end of the slice that starts at i
SliceEndShort(i) == i + batchSize - 1

SliceEnd(i) == i + batchSize

\* records.slice(from, to), positions counted from 0
SliceBetween(records, from, to) ==
    SubSeq(records, from + 1, IF to < Len(records) THEN to ELSE Len(records))

\* validationUtils.js:611-613, the batches pushed from position i on
RECURSIVE BatchesFrom(_, _)
BatchesFrom(records, i) ==
    IF i < Len(records)
    THEN <<SliceBetween(records, i, SliceEnd(i))>> \o BatchesFrom(records, i + batchSize)
    ELSE <<>>

\* validationUtils.js:628-641, the ids of the batch pushed for results with the
\* given success, in the order of the batch
Pushed(batch, updateResult, success) ==
    LET positions == [i \in 1..Len(batch) |-> i]
        Has(i) == updateResult[i] = success
        chosen == SelectSeq(positions, Has)
    IN  [j \in 1..Len(chosen) |-> batch[chosen[j]]]

InitUpdate ==
    /\ op = "updateProbabilities"
    /\ pc = "prepare"
    /\ outcome = "none"
    /\ \E n \in UpdateLengths: updates = [i \in 1..n |-> i]
    /\ batches = <<>>
    /\ calls = <<>>
    /\ updateResults = NoResults
    /\ report = NoReport
    /\ RouteIdle
    /\ QueueIdle
    /\ StoreIdle
    /\ BatchIdle
    /\ BalanceIdle
    /\ SplitIdle
    /\ ControllerIdle
    /\ RegressionIdle
    /\ path = "none" /\ weights = <<>> /\ recordValues = <<>> /\ encodingInfo = <<>>
    /\ probability = 0 /\ category = "none" /\ contributions = <<>> /\ shownNames = <<>>
    /\ opportunities = <<>> /\ numDimensions = 0 /\ maxCombinations = 0
    /\ selectedDimensionValues = <<>> /\ lookupTable = <<>>
    /\ WorkerIdle
    /\ EvalIdle
    /\ TrainIdle
    /\ KMIdle
    /\ maxIterations = 0 /\ converged = FALSE
    /\ ViewIdle

UpdateFrame ==
    UNCHANGED <<op, maxIterations, converged, kmVars, trainVars, evalVars,
                workerVars, lookupVars, scoreVars, regressionVars, controllerVars,
                splitVars, balanceVars, batchVars, storeVars, queueVars, routeVars,
                   viewVars>>

\* validationUtils.js:565-616, the field check, whose failures are caught, then
\* the records and their batches
UpdatePrepare ==
    /\ op = "updateProbabilities" /\ pc = "prepare"
    /\ batches' = BatchesFrom(updates, 0)
    /\ pc' = "batches"
    /\ UNCHANGED <<updates, calls, updateResults, report, outcome>>
    /\ UpdateFrame

\* validationUtils.js:624-668, one pass of the loop over the batches
UpdateBatch(kind) ==
    /\ op = "updateProbabilities" /\ pc = "batches"
    /\ Len(calls) < Len(batches)
    /\ LET batch == batches[Len(calls) + 1]
           updateResult == UpdateResult(kind, batch)
       IN  /\ calls' = Append(calls, kind)
           /\ updateResults' =
                 IF kind = "throws"
                 THEN [updateResults EXCEPT !.errors = @ \o batch]
                 ELSE [success |-> updateResults.success \o Pushed(batch, updateResult, TRUE),
                       errors |-> updateResults.errors \o Pushed(batch, updateResult, FALSE)]
    /\ UNCHANGED <<updates, batches, report, pc, outcome>>
    /\ UpdateFrame

\* validationUtils.js:670-675, the return after the last batch
UpdateReturn ==
    /\ op = "updateProbabilities" /\ pc = "batches"
    /\ Len(calls) = Len(batches)
    /\ report' = [totalRecords |-> Len(updates),
                  successCount |-> Len(updateResults.success),
                  errorCount |-> Len(updateResults.errors)]
    /\ pc' = "done"
    /\ outcome' = "result"
    /\ UNCHANGED <<updates, batches, calls, updateResults>>
    /\ UpdateFrame

NextUpdate ==
    \/ UpdatePrepare
    \/ \E kind \in CallOutcomes: UpdateBatch(kind)
    \/ UpdateReturn

SpecUpdate == InitUpdate /\ [][NextUpdate]_vars

\* ------------------------------------------------- the clustering view
\* the clustering methods of the form
ClusteringMethods == {"kmeans", "hierarchical"}

\* clustering.js:259-281, performClustering: the message posted for the method
ClusteringRequest(run, points, clusteringMethod) ==
    [id |-> IF clusteringMethod = "kmeans" THEN "kmeans_clustering" ELSE "hierarchical_clustering",
     run |-> run, points |-> points]

\* the clustering worker answers a request with one message carrying the
\* request's id: a result, or an error
WorkerAnswers(m) ==
    {[success |-> ok, id |-> m.id, run |-> m.run, points |-> m.points] : ok \in BOOLEAN}

\* clustering.js:548, pcaData ? pcaData.reducedData : clusteringDataPoints.points
PointsToPlot(pca, form) ==
    IF pca # 0 THEN Points("reduced", pca) ELSE Points("original", form.dims)

InitView ==
    /\ op = "clusteringView"
    /\ pc = "idle"
    /\ outcome = "none"
    /\ dom = NoForm
    /\ runs = <<>>
    /\ pcaData = 0
    /\ toWorker = <<>>
    /\ toView = <<>>
    /\ clustersOf = NoClusters
    /\ plots = <<>>
    /\ UpdateIdle
    /\ RouteIdle
    /\ QueueIdle
    /\ StoreIdle
    /\ BatchIdle
    /\ BalanceIdle
    /\ SplitIdle
    /\ ControllerIdle
    /\ RegressionIdle
    /\ path = "none" /\ weights = <<>> /\ recordValues = <<>> /\ encodingInfo = <<>>
    /\ probability = 0 /\ category = "none" /\ contributions = <<>> /\ shownNames = <<>>
    /\ opportunities = <<>> /\ numDimensions = 0 /\ maxCombinations = 0
    /\ selectedDimensionValues = <<>> /\ lookupTable = <<>>
    /\ WorkerIdle
    /\ EvalIdle
    /\ TrainIdle
    /\ KMIdle
    /\ maxIterations = 0 /\ converged = FALSE

ViewFrame ==
    UNCHANGED <<op, pc, outcome, maxIterations, converged, kmVars, trainVars, evalVars,
                workerVars, lookupVars, scoreVars, regressionVars, controllerVars,
                splitVars, balanceVars, batchVars, storeVars, queueVars, routeVars,
                updateVars>>

\* clustering.js:219-253, runClusteringAnalysis with the form filled in; the runs
\* are taken one after the other: the form is used again once no message of the
\* run before is outstanding
RunClusteringAnalysis(selected, clusteringMethod) ==
    /\ op = "clusteringView"
    /\ Len(runs) < MaxRuns
    /\ toWorker = <<>> /\ toView = <<>>
    /\ dom' = [dims |-> selected, method |-> clusteringMethod]
    /\ IF selected < 2
       THEN UNCHANGED <<runs, toWorker>>
       ELSE /\ runs' = Append(runs, selected)
            /\ toWorker' =
                  Append(toWorker,
                         IF selected > 2
                         THEN [id |-> "dimensionality_reduction", run |-> Len(runs) + 1,
                               points |-> Points("original", selected)]
                         ELSE ClusteringRequest(Len(runs) + 1, Points("original", selected),
                                                clusteringMethod))
    /\ UNCHANGED <<pcaData, toView, clustersOf, plots>>
    /\ ViewFrame

\* the worker answers its oldest request
ClusteringWorkerAnswer ==
    /\ op = "clusteringView"
    /\ toWorker # <<>>
    /\ \E m \in WorkerAnswers(Head(toWorker)): toView' = Append(toView, m)
    /\ toWorker' = Tail(toWorker)
    /\ UNCHANGED <<dom, runs, pcaData, clustersOf, plots>>
    /\ ViewFrame

\* clustering.js:47-75, handleWorkerMessage, with the handler its switch calls:
\* handlePCAResult (354-371), handleKMeansResult (377-400) and
\* handleClusterAnalysisResult (406-415) with createClusterScatterPlot (539-548)
HandleWorkerMessage ==
    /\ op = "clusteringView"
    /\ toView # <<>>
    /\ toView' = Tail(toView)
    /\ LET m == Head(toView)
       IN  IF ~m.success
           THEN UNCHANGED <<pcaData, toWorker, clustersOf, plots>>
           ELSE IF m.id = "dimensionality_reduction"
           THEN /\ pcaData' = m.run
                /\ toWorker' = Append(toWorker,
                       ClusteringRequest(m.run, Points("reduced", m.run), dom.method))
                /\ UNCHANGED <<clustersOf, plots>>
           ELSE IF m.id = "kmeans_clustering"
           THEN /\ clustersOf' = [run |-> m.run, points |-> m.points]
                /\ toWorker' = Append(toWorker,
                       [id |-> "cluster_analysis", run |-> m.run, points |-> m.points])
                /\ UNCHANGED <<pcaData, plots>>
           ELSE IF m.id = "cluster_analysis"
           THEN /\ plots' = Append(plots,
                       [run |-> clustersOf.run,
                        clustered |-> clustersOf.points,
                        plotted |-> PointsToPlot(pcaData, dom)])
                /\ UNCHANGED <<pcaData, toWorker, clustersOf>>
           ELSE UNCHANGED <<pcaData, toWorker, clustersOf, plots>>
    /\ UNCHANGED <<dom, runs>>
    /\ ViewFrame

NextView ==
    \/ \E selected \in 1..MaxSelected, clusteringMethod \in ClusteringMethods:
          RunClusteringAnalysis(selected, clusteringMethod)
    \/ ClusteringWorkerAnswer
    \/ HandleWorkerMessage

SpecView == InitView /\ [][NextView]_vars

\* ---------------------------------------------------------------- claims

\* C1: every request a worker receives is answered by exactly one message, and
\* it carries the request's id: a success message when the operation returned,
\* a failure message when the action is unknown or the operation threw; the
\* handler always reaches its postMessage.
C1_ExactlyOneResponse ==
    op \in {"regressionWorker", "predictionWorker"} =>
        /\ Len(outbox) <= 1
        /\ (pc = "done") <=> (Len(outbox) = 1)
        /\ \A m \in 1..Len(outbox):
              /\ outbox[m].id = id
              /\ outbox[m].success =
                    (/\ HasCase(op, action)
                     /\ ~opThrows
                     /\ action = "train_model" => ~InvalidTrainingInput(lenX, lenY))
        /\ pc # "done" => ENABLED NextWorker

C1_Witness ==
    /\ op = "regressionWorker" /\ pc = "done"
    /\ HasCase(op, action) /\ opThrows
    /\ outbox = <<[success |-> FALSE, id |-> id]>>

\* C2 (as the code has it): the worker trainer applies its test in the passes
\* whose counter is above 5, the seventh pass onward, and ends at the first
\* such pass whose weight change is below 1e-4, or after maxIterations passes;
\* the backend trainer has no minimum and ends at the first pass after the
\* first whose cost moved by less than 1e-4, or after 500 completed passes.
\* Every pass is one update, and no run makes more than maxIterations updates.
C2_StopCriterion ==
    /\ (op = "predictionWorker" /\ action = "train_model") =>
          /\ iteration = Len(costHistory) /\ iteration = Len(deltaSmall)
          /\ iteration <= maxIterations
          /\ converged <=> (iteration >= 7 /\ deltaSmall[iteration])
          /\ \A r \in 7..(iteration - 1): ~deltaSmall[r]
          /\ (pc \in {"post", "done"} /\ outcome # "error") =>
                (converged \/ iteration = maxIterations)
          /\ pc = "loop" => ENABLED (TrainIterate \/ TrainReturn)
    /\ op = "build" =>
          /\ Len(costHistory) = Len(deltaSmall)
          /\ Len(costHistory) <= maxIterations
          /\ \A r \in 1..(Len(deltaSmall) - 1): ~deltaSmall[r]
          /\ Len(deltaSmall) >= 1 => ~deltaSmall[1]
          /\ (pc \in {"finish", "done"} /\ outcome # "error") =>
                \/ Len(deltaSmall) >= 2 /\ deltaSmall[Len(deltaSmall)]
                \/ Len(costHistory) = maxIterations
          /\ pc = "loop" => ENABLED (BuildIterate \/ BuildLoopEnd)

C2_Witness ==
    /\ op = "predictionWorker" /\ pc = "done" /\ converged
    /\ iteration = 7 /\ iteration < maxIterations
    /\ deltaSmall[5] /\ deltaSmall[6]

\* C2 as stated: the test is applied from the fifth iteration onward, the loop
\* ends at the first iteration that passes it, no run stops on the test before
\* its fifth iteration, and at most maxIterations updates are made.
C2_TestFromFifthIteration ==
    /\ (op = "predictionWorker" /\ action = "train_model") =>
          /\ Len(costHistory) <= maxIterations
          /\ \A r \in 5..(iteration - 1): ~deltaSmall[r]
          /\ converged => (iteration >= 5 /\ deltaSmall[iteration])
    /\ op = "build" =>
          /\ Len(costHistory) <= maxIterations
          /\ (pc \in {"finish", "done"} /\ Len(costHistory) < maxIterations
                /\ outcome # "error") => Len(costHistory) >= 5

C4_InvalidKRejected ==
    (op = "cluster" /\ (kArg < 1 \/ kArg > Len(features)))
        => (centroids = <<>> /\ outcome # "result")

\* C5: in every iteration a cluster left empty by the assignment step keeps
\* its own previous centroid.
C5_EmptyKeepsOwnCentroid ==
    (op = "cluster" /\ pc = "check")
        => \A c \in 1..Len(clusters):
              Len(clusters[c]) = 0 => newCentroids[c] = centroids[c]

\* C6: the loop ends at the first round whose centroid shift is below 0.001 or
\* after maxIterations rounds, whichever comes first; iterations counts the
\* rounds performed and never exceeds maxIterations; the loop never stops
\* short of its exit.
C6_LoopTerminates ==
    (op = "cluster" /\ 1 <= k /\ k <= Len(features)) =>
        /\ iterations <= maxIterations
        /\ iterations = Len(shiftSmall)
        /\ \A r \in 1..(Len(shiftSmall) - 1): ~shiftSmall[r]
        /\ pc \in {"assign", "check"} => \A r \in 1..Len(shiftSmall): ~shiftSmall[r]
        /\ pc \in {"stats", "done"} =>
              /\ iterations >= 1
              /\ converged = shiftSmall[iterations]
              /\ converged \/ iterations = maxIterations
        /\ outcome = "result" => (pc = "done" /\ iterations >= 1)
        /\ pc # "done" => ENABLED NextCluster

C6_WitnessCap ==
    /\ op = "cluster" /\ pc = "done" /\ outcome = "result"
    /\ ~converged /\ iterations = maxIterations
    /\ 1 <= k /\ k <= Len(features)

\* C7: the sum of squared distances from the points to the centroid of their
\* cluster never increases: not by the centroid update of a round, and not by
\* the assignment step of the next round.
C7_SSENonIncreasing ==
    [][(op = "cluster" /\ pc = "assign" /\ pc' = "check") =>
          /\ ~Less(SSE(features, clusters', centroids), SSE(features, clusters', newCentroids'))
          /\ iterations >= 1 =>
                ~Less(SSE(features, clusters, centroids), SSE(features, clusters', centroids))]_vars

C7_Witness ==
    /\ op = "cluster" /\ pc = "check" /\ iterations >= 1
    /\ \E c \in 1..Len(clusters): Len(clusters[c]) = 0
    /\ Less(SSE(features, clusters, newCentroids), SSE(features, clusters, centroids))

\* C8: for the points {0,0,1,10,10,11} and k = 2 every draw of the initial
\* centroids ends converged with centroids {1/3, 31/3} and clusters {0,0,1},
\* {10,10,11}.
C8_ScenarioConverges ==
    (/\ op = "cluster" /\ features = ScenarioPoints /\ k = 2
     /\ maxIterations = MAX_ITERATIONS /\ pc \in {"stats", "done"}) =>
        /\ converged
        /\ {centroids[1], centroids[2]} = {Scale \div 3, (31 * Scale) \div 3}
        /\ {clusters[1], clusters[2]} = {<<1, 2, 3>>, <<4, 5, 6>>}
        /\ pc = "done" => outcome = "result"

C8_Witness ==
    /\ op = "cluster" /\ features = ScenarioPoints /\ k = 2 /\ pc = "done"
    /\ maxIterations = MAX_ITERATIONS /\ outcome = "result"
    /\ iterations = 3 /\ centroids = <<(31 * Scale) \div 3, Scale \div 3>>

\* the records the value x of dimension d matches by ==
Occurrences(x, d) ==
    Cardinality({i \in 1..Len(opportunities): LooseEq(opportunities[i].vals[d], x)})

\* C9: in every cell winRate is wins/sampleSize, a fraction in [0,1], over the
\* records that match the cell; a cell that matches no record has winRate 0
\* and a null interval.
C9_WinRateIsFraction ==
    (op = "lookup" /\ pc = "done") =>
        /\ outcome = "result"
        /\ \A c \in 1..Len(lookupTable):
              LET cell == lookupTable[c]
                  matching == {i \in 1..Len(opportunities):
                                  \A d \in 1..numDimensions:
                                      LooseEq(opportunities[i].vals[d], cell.values[d])}
                  wins == Cardinality({i \in matching: opportunities[i].won})
              IN /\ cell.sampleSize = Cardinality(matching)
                 /\ cell.winRate.num >= 0 /\ cell.winRate.num <= cell.winRate.den
                 /\ cell.sampleSize > 0 =>
                       cell.winRate.num * cell.sampleSize = wins * cell.winRate.den
                 /\ cell.sampleSize = 0 =>
                       (cell.winRate.num = 0 /\ cell.confidenceInterval = "null")

\* C10: when the product of the distinct-value counts exceeds maxCombinations
\* every used domain holds at most max(2, floor(maxCombinations^(1/n))) values
\* and no discarded value occurs in more records than a kept one; otherwise
\* every observed value is used.
C10_PrunedToMostFrequent ==
    (op = "lookup" /\ pc = "done") =>
        LET observed == [d \in 1..numDimensions |-> Distinct(Column(opportunities, d))]
        IN IF Product(observed) > maxCombinations
           THEN \A d \in 1..numDimensions:
                  LET used == selectedDimensionValues[d]
                      discarded == {i \in 1..Len(observed[d]):
                                       \A j \in 1..Len(used):
                                           ~LooseEq(observed[d][i], used[j])}
                  IN /\ Len(used) <= Max2(2, FloorRoot(maxCombinations, numDimensions))
                     /\ \A i \in discarded: \A j \in 1..Len(used):
                           Occurrences(observed[d][i], d) <= Occurrences(used[j], d)
           ELSE selectedDimensionValues = observed

\* C11: the table holds exactly one cell for every combination of one used
\* value per dimension, matched by a record or not: the number of cells is the
\* product of the sizes of the returned domains and no combination is repeated.
C11_OneCellPerCombination ==
    (op = "lookup" /\ pc = "done") =>
        /\ outcome = "result"
        /\ Len(selectedDimensionValues) = numDimensions
        /\ Len(lookupTable) = Product(selectedDimensionValues)
        /\ \A c \in 1..Len(lookupTable): \A e \in 1..Len(lookupTable):
              lookupTable[c].values = lookupTable[e].values => c = e
        /\ {lookupTable[c].values : c \in 1..Len(lookupTable)} =
              {combination \in
                    [1..numDimensions ->
                        UNION {{selectedDimensionValues[d][i] :
                                  i \in 1..Len(selectedDimensionValues[d])} :
                               d \in 1..numDimensions}] :
                 \A d \in 1..numDimensions:
                    \E i \in 1..Len(selectedDimensionValues[d]):
                        combination[d] = selectedDimensionValues[d][i]}

C11_Witness ==
    /\ op = "lookup" /\ pc = "done" /\ numDimensions = 2
    /\ Len(lookupTable) = 4
    /\ \E c \in 1..Len(lookupTable): lookupTable[c].sampleSize = 0
    /\ \E c \in 1..Len(lookupTable): lookupTable[c].sampleSize = 1

\* C12: in every result of the two trainers precision, recall and f1Score are
\* numbers, never NaN, and each is 0 when its denominator is 0: no predicted
\* positive, no actual positive, precision + recall = 0.
C12_MetricsNeverNaN ==
    (op \in {"predictionWorker", "build"} /\ performance # NoPerformance) =>
        /\ confusionMatrix \in ConfusionMatrices(Cardinality(validIndices))
        /\ \A metric \in {performance.precision, performance.recall, performance.f1Score}:
              metric.kind = "num" /\ metric.den > 0 /\ metric.num >= 0
        /\ confusionMatrix.tp + confusionMatrix.fp = 0 => performance.precision.num = 0
        /\ confusionMatrix.tp + confusionMatrix.fn = 0 => performance.recall.num = 0
        /\ (performance.precision.num = 0 /\ performance.recall.num = 0)
              => performance.f1Score.num = 0
        /\ confusionMatrix.tp + confusionMatrix.fp > 0 =>
              performance.precision.num * (confusionMatrix.tp + confusionMatrix.fp)
                 = confusionMatrix.tp * performance.precision.den
        /\ confusionMatrix.tp + confusionMatrix.fn > 0 =>
              performance.recall.num * (confusionMatrix.tp + confusionMatrix.fn)
                 = confusionMatrix.tp * performance.recall.den

C12_Witness ==
    /\ op = "build" /\ pc = "done" /\ outcome = "result"
    /\ confusionMatrix.tp + confusionMatrix.fp = 0
    /\ confusionMatrix.fn = 1
    /\ performance.f1Score = Number(0, 1)

\* C13: the examples the metrics of a trained model are computed on are
\* disjoint from the examples the gradient updates read, and the two sets
\* together are the input examples, in the worker trainer and in the backend
\* trainer.
C13_MetricsOnHeldOutSplit ==
    (op \in {"predictionWorker", "build"} /\ confusionMatrix # NoMatrix) =>
        /\ trainIndices \cap validIndices = {}
        /\ trainIndices \cup validIndices = 1..lenX

\* the category names without their capitals
LowerCase(c) ==
    IF c = "High" THEN "high" ELSE IF c = "Medium" THEN "medium"
    ELSE IF c = "Low" THEN "low" ELSE c

\* C14: every scoring path gives a probability p the same category: high iff
\* p >= 0.7, medium iff 0.4 <= p < 0.7, low iff p < 0.4; so do the configured
\* thresholds of the frontend.
C14_SameThresholds ==
    (op = "score" /\ outcome = "result") =>
        LET expected == IF probability >= 7000 THEN "high"
                        ELSE IF probability >= 4000 THEN "medium"
                        ELSE "low"
        IN /\ LowerCase(category) = expected
           /\ ConfiguredCategory(probability) = expected

\* C15: the contributions hold exactly one entry per dimension and none for
\* the bias, each entry carries the weight and the value of its dimension, the
\* entries are in non-increasing order of |weight * value|, and the
\* prediction view names each entry by its own dimension.
C15_OneContributionPerDimension ==
    (op = "score" /\ pc = "done") =>
        /\ Len(contributions) = Len(recordValues)
        /\ \A e \in 1..(Len(contributions) - 1):
              Abs(contributions[e].contribution) >= Abs(contributions[e + 1].contribution)
        /\ path = "worker" =>
              /\ \A d \in 1..Len(recordValues):
                    \E e \in 1..Len(contributions): contributions[e].index = d
              /\ \A e \in 1..Len(contributions):
                    /\ contributions[e].index \in 1..Len(recordValues)
                    /\ contributions[e].contribution =
                          weights[contributions[e].index + 1]
                             * recordValues[contributions[e].index]
              /\ \A e \in 1..Len(shownNames): shownNames[e] = contributions[e].index
        /\ path = "service" =>
              /\ \A d \in 1..Len(recordValues):
                    \E e \in 1..Len(contributions): contributions[e].dimension = d
              /\ \A e \in 1..Len(contributions):
                    contributions[e].contribution =
                        weights[contributions[e].dimension + 1]
                           * contributions[e].encodedValue

\* C16: scoring a record never raises; a categorical value absent from the
\* EncodingInfo is encoded to a code that no category of the EncodingInfo has,
\* and a category of the EncodingInfo is encoded to its own code.
C16_UnknownCodeReserved ==
    (op = "score" /\ path = "service" /\ pc = "done") =>
        /\ outcome = "result"
        /\ \A e \in 1..Len(contributions):
              LET d == contributions[e].dimension
                  known == {encodingInfo[d][i] : i \in 1..Len(encodingInfo[d])}
              IN Len(encodingInfo[d]) > 0 =>
                    IF recordValues[d] \in known
                    THEN contributions[e].encodedValue = CodeOf(encodingInfo[d], recordValues[d])
                    ELSE \A c \in known:
                            contributions[e].encodedValue # CodeOf(encodingInfo[d], c)

\* C17: a regression of n observations on p predictors with n - p - 1 <= 0
\* fails with InsufficientDataError, and no standard error, t-statistic,
\* p-value or interval is returned for it, in the worker and in the service.
C17_InsufficientDataRejected ==
    (op = "regression" /\ pc = "done" /\ ~InvalidRegressionInput(lenX, lenY)
        /\ DegreesOfFreedom(lenY, predictors) <= 0) =>
        /\ outcome = "error"
        /\ errorMessage = "InsufficientDataError"
        /\ statistics = "none"

C19_ResultFromOwnInputs ==
    op = "controller" =>
        \A r \in 1..MaxRequests:
            responses[r].status = 200 => responses[r].data = ComputedResult(requests[r])

\* the records of a returned set whose outcome field holds the given value
Held(set, value) == Cardinality({i \in 1..Len(set): data[set[i]] = value})

\* C20: the stratified split returns a partition of its input: every input
\* record is in exactly one of training and testing, testing holds
\* floor(testRatio * W) of the W won records and floor(testRatio * L) of the L
\* lost records, and training holds the rest.
C20_StratifiedPartition ==
    (op = "split" /\ pc = "done" /\ stratified) =>
        LET both == training \o testing
            W == Cardinality(Filter("true"))
            L == Cardinality(Filter("false"))
        IN /\ \A r \in 1..Len(data):
                 Cardinality({i \in 1..Len(both): both[i] = r}) = 1
           /\ Held(testing, "true") = (testRatio * W) \div 100
           /\ Held(testing, "false") = (testRatio * L) \div 100
           /\ Len(training) = Len(data) - Len(testing)

\* the output records whose outcome field holds the given value
Balanced(value) == Cardinality({i \in 1..Len(balanced): balanced[i].outcome = value})

\* C21: after balanceWinLossData with 'undersample' or 'oversample' the output
\* holds as many won records as lost records, for unequal classes, for equal
\* classes (the output then holds the records of the input) and for an input
\* with one class empty; every output record is a copy of an input record.
C21_ClassesEqualised ==
    (op = "balance" /\ pc = "done" /\ method \in {"undersample", "oversample"}) =>
        /\ Balanced("true") = Balanced("false")
        /\ \A i \in 1..Len(balanced):
              /\ balanced[i].source \in 1..Len(data)
              /\ balanced[i].outcome = data[balanced[i].source]
        /\ Cardinality(Filter("true")) = Cardinality(Filter("false")) =>
              \A r \in 1..Len(data):
                  Cardinality({i \in 1..Len(balanced): balanced[i].source = r}) = 1

\* C22: a batch prediction returns one prediction per element, in input order,
\* with a summary whose count is the length of the list and whose high, medium
\* and low counts sum to it; when scoring an element raises, the batch returns
\* an error and no predictions.
C22_BatchConsistent ==
    (op = "batch" /\ pc = "done") =>
        IF \E i \in 1..Len(featuresList): featuresList[i] = MissingFeatures
        THEN outcome = "error" /\ predictions = <<>> /\ summary = NoSummary
        ELSE /\ outcome = "result"
             /\ Len(predictions) = Len(featuresList)
             /\ \A i \in 1..Len(featuresList):
                   predictions[i] = Prediction(path, weights, featuresList[i])
             /\ summary.count = Len(featuresList)
             /\ summary.high + summary.medium + summary.low = summary.count

\* C23: the cost is recorded once per training iteration: in every training
\* result the reported iteration count equals the number of entries of the
\* cost history and the number of weight updates performed, for a run ended
\* by convergence and for a run ended by the cap, in both trainers.
C23_IterationsMatchCostHistory ==
    (op \in {"predictionWorker", "build"} /\ pc = "done" /\ outcome = "result") =>
        /\ iteration = Len(costHistory)
        /\ iteration = Len(deltaSmall)

\* C24: when no pruning occurs every input record is counted in exactly one
\* cell, so the sample sizes of the cells sum to the number of records and
\* their wins to the number of won records, for every mix of value types in
\* a dimension.
C24_EveryRecordInOneCell ==
    (op = "lookup" /\ pc = "done"
        /\ Product([d \in 1..numDimensions |-> Distinct(Column(opportunities, d))])
               <= maxCombinations) =>
        /\ \A i \in 1..Len(opportunities):
              Cardinality({c \in 1..Len(lookupTable):
                  \A d \in 1..numDimensions:
                      LooseEq(opportunities[i].vals[d], lookupTable[c].values[d])}) = 1
        /\ SumSeq([c \in 1..Len(lookupTable) |-> lookupTable[c].sampleSize])
              = Len(opportunities)
        /\ SumSeq([c \in 1..Len(lookupTable) |-> lookupTable[c].winRate.num \div 100])
              = Cardinality({i \in 1..Len(opportunities): opportunities[i].won})

\* C25: after every assignment step and in the returned result the clusters
\* partition the input points: there are k clusters, every point index is in
\* exactly one of them, once, and the cluster sizes sum to the number of
\* points; a point equidistant from several centroids is in the cluster of
\* the one with the lowest index.
C25_ClustersPartitionPoints ==
    (op = "cluster" /\ clusters # <<>>) =>
        /\ Len(clusters) = k
        /\ \A i \in 1..Len(features):
              Cardinality({<<c, m>> \in (1..k) \X (1..Len(features)):
                              m <= Len(clusters[c]) /\ clusters[c][m] = i}) = 1
        /\ SumSeq([c \in 1..k |-> Len(clusters[c])]) = Len(features)
        /\ pc = "check" =>
              \A c \in 1..k: \A m \in 1..Len(clusters[c]): \A j \in 1..k:
                  LET point == Scaled(features[clusters[c][m]])
                  IN (Distance(point, centroids[c]) # NaN
                        /\ Distance(point, centroids[j]) = Distance(point, centroids[c]))
                     => c <= j

C25_Witness ==
    /\ op = "cluster" /\ pc = "check"
    /\ \E i \in 1..Len(features): \E c \in 1..k: \E j \in (c + 1)..k:
          /\ centroids[c] # centroids[j]
          /\ Distance(Scaled(features[i]), centroids[c]) # NaN
          /\ Distance(Scaled(features[i]), centroids[c])
                = Distance(Scaled(features[i]), centroids[j])
          /\ \E m \in 1..Len(clusters[c]): clusters[c][m] = i
          /\ \A l \in 1..k: Distance(Scaled(features[i]), centroids[l]) # NaN
                => Distance(Scaled(features[i]), centroids[l])
                       >= Distance(Scaled(features[i]), centroids[c])

\* C26: a request that uses a model computes a prediction or formula only if
\* a build stored a model under its modelId and clear-cache has not run
\* since; in every other case it is answered 400 'Model not found' and
\* computes nothing.  After clear-cache nothing stored before it is served.
C26_ModelServedOnlyWhenBuilt ==
    op = "models" =>
        \A r \in 1..Len(replies):
            LET reply == replies[r]
            IN /\ reply.served # NotStored => reply.served = reply.clears
               /\ reply.kind \in {"predict", "formula", "simulate", "batch"} =>
                     /\ reply.served # NotStored => reply.built
                     /\ ~reply.built =>
                           /\ reply.status = 400 /\ reply.error = "Model not found"
                           /\ reply.served = NotStored

C28_NoHandlerWithoutToken ==
    (op = "route" /\ LacksToken(cookies)) =>
        /\ invoked = {}
        /\ pc # "handler"
        /\ pc = "done" => answer = AuthenticationRequired

\* a request without cookies to an analytics route has been answered
C28_Witness ==
    /\ op = "route" /\ pc = "done"
    /\ route.router = "analytics" /\ route.handler = "clearAnalyticsCache"
    /\ cookies = NoToken
    /\ answer.status = 401

\* the record ids of a sequence of ids
IdsOf(seq) == {seq[i] : i \in 1..Len(seq)}

\* the position in the records of the first record of batch b
BatchStartsAt(b) == (b - 1) * batchSize

\* C29: the updates are sent in consecutive batches of at most 200 records, a
\* call that throws puts all records of its batch among the errors and the
\* following batches are still sent, and the report counts every update exactly
\* once: successCount + errorCount = totalRecords = the number of updates.
C29_EveryUpdateReportedOnce ==
    (op = "updateProbabilities" /\ pc # "prepare") =>
        /\ \A b \in 1..Len(batches):
              /\ Len(batches[b]) \in 1..batchSize
              /\ \A i \in 1..Len(batches[b]):
                    batches[b][i] = updates[BatchStartsAt(b) + i]
        /\ Len(batches) * batchSize >= Len(updates)
        /\ \A c \in 1..Len(calls):
              calls[c] = "throws" => IdsOf(batches[c]) \subseteq IdsOf(updateResults.errors)
        /\ pc = "done" =>
              /\ Len(calls) = Len(batches)
              /\ report.totalRecords = Len(updates)
              /\ report.successCount + report.errorCount = report.totalRecords
              /\ IdsOf(updateResults.success) \cup IdsOf(updateResults.errors) = IdsOf(updates)
              /\ Len(updateResults.success) + Len(updateResults.errors) = Len(updates)

\* three batches, the first call throws, the second updates part of its records
\* and the last one, of a single record, succeeds
C29_Witness ==
    /\ op = "updateProbabilities" /\ pc = "done"
    /\ Len(updates) = 2 * batchSize + 1
    /\ calls = <<"throws", "alternate", "all">>
    /\ report.successCount = batchSize \div 2 + 1

\* C30: whatever clustering runs came before, a scatter plot draws reduced
\* coordinates only if the run whose clusters it shows selected more than 2
\* dimensions, and then that run's own reduction; a run with exactly 2 selected
\* dimensions is drawn with the points that were clustered in it.
C30_PlotUsesOwnRunsPoints ==
    op = "clusteringView" =>
        \A i \in 1..Len(plots):
            LET plot == plots[i]
                selected == runs[plot.run]
            IN  /\ plot.plotted.kind = "reduced" =>
                      /\ selected > 2
                      /\ plot.plotted.of = plot.run
                /\ selected = 2 => plot.plotted = plot.clustered

Init ==
    \/ InitCluster \/ InitWorker \/ InitBuild \/ InitLookup \/ InitScore
    \/ InitRegression \/ InitController \/ InitSplit
    \/ InitBalance \/ InitBatch \/ InitLookupMixed \/ InitStore
    \/ InitQueue \/ InitRoute \/ InitUpdate \/ InitView

Next ==
    \/ NextCluster \/ NextWorker \/ NextBuild \/ NextLookup \/ NextScore
    \/ NextRegression \/ NextController \/ NextSplit
    \/ NextBalance \/ NextBatch \/ NextStore
    \/ NextQueue \/ NextRoute \/ NextUpdate \/ NextView

Spec == Init /\ [][Next]_vars

====
